---- MODULE Spec2Model ----
(***************************************************************************)
(* Davao WiFi Logger: the presence engine of the MCP server                *)
(* (clampIntervalToDay, mergeSessions, getEmployeePresence,                *)
(* getDailyReport and the presenceAnalytics tool).                         *)
(*                                                                         *)
(* Time.  A JavaScript Date is modelled by its getTime() value: integer    *)
(* milliseconds of local wall-clock time counted from 00:00:00 of day 0.   *)
(* A stored FirstSeen/LastSeen text is modelled by the whole second it     *)
(* names ('YYYY-MM-DD HH:MM:SS', no zone suffix), which new Date() reads   *)
(* as local time and SQLite's date() reads as written.  A 'YYYY-MM-DD'     *)
(* string is modelled by its day number.                                   *)
(*                                                                         *)
(* Host zone.  The zone of the host (TZ) is one of HostZones: one of fixed *)
(* UTC offset and one whose clocks go forward an hour during day 1.  The   *)
(* stored timestamps lie outside the skipped hour and no interval the      *)
(* tools build spans it, so wall-clock differences are elapsed times; the  *)
(* zone shows only in the day loop of presenceAnalytics, which steps a     *)
(* UTC instant by one local calendar day.                                  *)
(***************************************************************************)
EXTENDS Integers, Sequences, FiniteSets, TLC

VARIABLES
    logs,        \* the rows of the logs table the sequential server reads
    pc, req, resp,   \* the call in progress, its arguments and its result
    db,          \* this.db: Null or <<path>>, a handle on the file at path
    dbPath,      \* this.dbPath
    files,       \* the logs table of each database file, by path
    tasks,       \* the tool calls in flight, by request id
    configured   \* <<P>> once configureDatabase({path: P}) has returned and
                 \* no other change of path has begun; Null otherwise

vars == <<logs, pc, req, resp, db, dbPath, files, tasks, configured>>

\* The state of the one-call-at-a-time specifications.
call == <<logs, pc, req, resp>>

\* The state of the specification of interleaved tool calls.
conn == <<db, dbPath, files, tasks, configured>>

\* JavaScript null (a missing interval, a NULL or empty Name): the empty tuple.
Null == <<>>

\* No value returned yet.
NoResp == [kind |-> "none"]

\* path.join(__dirname, '..', 'database.sqlite')
DefaultPath == "database.sqlite"

-----------------------------------------------------------------------------
(* Bounds of the model *)

\* Longest interval list handed to mergeSessions.
MaxIntervals == 3

\* Most rows of the logs table.
MaxRows == 2

-----------------------------------------------------------------------------
(* Dates *)

MsPerSecond == 1000

MsPerMinute == 1000 * 60

MsPerDay == 24 * 60 * MsPerMinute

SecondsPerDay == 24 * 60 * 60

Min(a, b) == IF a <= b THEN a ELSE b

Max(a, b) == IF a >= b THEN a ELSE b

\* new Date(`${dayStr}T00:00:00`).getTime()
DayStart(day) == day * MsPerDay

\* new Date(`${dayStr}T23:59:59`).getTime()
DayEnd(day) == day * MsPerDay + (23 * 60 * 60 + 59 * 60 + 59) * MsPerSecond

\* The text toLocalISOString builds: date, hours, minutes, seconds (the
\* milliseconds of d are dropped).
toLocalISOString(d) ==
    LET sec == (d % MsPerDay) \div MsPerSecond
    IN  <<d \div MsPerDay, sec \div 3600, (sec % 3600) \div 60, sec % 60>>

-----------------------------------------------------------------------------
(* clampIntervalToDay *)

ClampStart_min(start, day) == Min(start, DayStart(day))

\* const s = new Date(Math.max(start.getTime(), dayStart.getTime()))
ClampStart(start, day) == Max(start, DayStart(day))

ClampEnd_exclusive(end, day) == Min(end, DayEnd(day)) - MsPerSecond

\* const e = new Date(Math.min(end.getTime(), dayEnd.getTime()))
ClampEnd(end, day) == Min(end, DayEnd(day))

clampIntervalToDay(interval, day) ==
    LET s == ClampStart(interval[1], day)
        e == ClampEnd(interval[2], day)
    IN  IF e < s THEN Null ELSE <<s, e>>

-----------------------------------------------------------------------------
(* mergeSessions *)

\* Array.prototype.sort with (a, b) => a[0] - b[0]: stable, by start only.
RECURSIVE InsertByStart(_, _)
InsertByStart(sorted, x) ==
    IF sorted = <<>> THEN <<x>>
    ELSE IF sorted[Len(sorted)][1] <= x[1] THEN Append(sorted, x)
    ELSE Append(InsertByStart(SubSeq(sorted, 1, Len(sorted) - 1), x),
                sorted[Len(sorted)])

RECURSIVE SortByStart_from(_, _)
SortByStart_from(intervals, n) ==
    IF n = 0 THEN <<>>
    ELSE InsertByStart(SortByStart_from(intervals, n - 1), intervals[n])

SortByStart_none(intervals) == intervals

SortByStart(intervals) == SortByStart_from(intervals, Len(intervals))

\* const gap = (s.getTime() - curE.getTime()) / (1000 * 60); gap > gapMinutes
GapExceeds_orEqual(s, curE, gapMinutes) == (s - curE) >= gapMinutes * MsPerMinute

GapExceeds_swapped(s, curE, gapMinutes) == (curE - s) > gapMinutes * MsPerMinute

GapExceeds(s, curE, gapMinutes) == (s - curE) > gapMinutes * MsPerMinute

ExtendEnd_always(curE, e) == e

ExtendEnd_never(curE, e) == curE

\* if (e > curE) curE = e
ExtendEnd(curE, e) == IF e > curE THEN e ELSE curE

\* The for loop of mergeSessions from index i, with the open session
\* [curS, curE] and the sessions pushed so far.
RECURSIVE MergeLoop(_, _, _, _, _, _)
MergeLoop(sorted, i, curS, curE, merged, gapMinutes) ==
    IF i > Len(sorted) THEN Append(merged, <<curS, curE>>)
    ELSE LET s == sorted[i][1]
             e == sorted[i][2]
         IN  IF GapExceeds(s, curE, gapMinutes)
             THEN MergeLoop(sorted, i + 1, s, e,
                            Append(merged, <<curS, curE>>), gapMinutes)
             ELSE MergeLoop(sorted, i + 1, curS, ExtendEnd(curE, e),
                            merged, gapMinutes)

mergeSessions(intervals, gapMinutes) ==
    IF Len(intervals) = 0 THEN <<>>
    ELSE LET sorted == SortByStart(intervals)
         IN  MergeLoop(sorted, 2, sorted[1][1], sorted[1][2], <<>>, gapMinutes)

-----------------------------------------------------------------------------
(* Strings: tuples of one-character strings *)

\* The characters of the modelled names, in code-unit order (the order of
\* SQLite's BINARY collation and of JavaScript's < on strings).
Alphabet == <<" ", "(", ")", "A", "B", "D", "U", "a", "b", "c", "d", "e",
              "g", "i", "k", "l", "m", "n", "o", "p", "r", "s", "t", "u", "v", "w", "y",
              "z">>

Code(c) == CHOOSE i \in 1..Len(Alphabet) : Alphabet[i] = c

\* String.prototype.toLowerCase, per character.
LowerChar(c) ==
    CASE c = "A" -> "a"
      [] c = "B" -> "b"
      [] c = "D" -> "d"
      [] c = "U" -> "u"
      [] OTHER -> c

toLowerCase(str) == [i \in 1..Len(str) |-> LowerChar(str[i])]

\* String.prototype.includes
includes(str, sub) ==
    \E i \in 0..(Len(str) - Len(sub)) :
       \A k \in 1..Len(sub) : str[i + k] = sub[k]

\* str < other in code-unit order.
RECURSIVE StrLess(_, _)
StrLess(str, other) ==
    IF other = <<>> THEN FALSE
    ELSE IF str = <<>> THEN TRUE
    ELSE IF str[1] = other[1] THEN StrLess(Tail(str), Tail(other))
    ELSE Code(str[1]) < Code(other[1])

\* String.prototype.trim
RECURSIVE trim(_)
trim(str) ==
    IF str = <<>> THEN str
    ELSE IF str[1] = " " THEN trim(Tail(str))
    ELSE IF str[Len(str)] = " " THEN trim(SubSeq(str, 1, Len(str) - 1))
    ELSE str

\* The index of the first ")" after position p, or 0.
CloseOf(str, p) ==
    LET closes == {j \in (p + 1)..Len(str) : str[j] = ")"}
    IN  IF closes = {} THEN 0
        ELSE CHOOSE j \in closes : \A k \in closes : j <= k

\* The first index at or after i that holds no space (Len + 1 if none).
SkipSpaces(str, i) ==
    LET rest == {j \in i..Len(str) : str[j] # " "}
    IN  IF rest = {} THEN Len(str) + 1
        ELSE CHOOSE j \in rest : \A k \in rest : j <= k

\* Whether /\s*\(([^)]+)\)/ matches at index i: spaces, "(", one or more
\* characters other than ")", then ")".
MatchesAt(str, i) ==
    LET p == SkipSpaces(str, i)
    IN  /\ p <= Len(str)
        /\ str[p] = "("
        /\ CloseOf(str, p) >= p + 2

\* name.replace(/\s*\(([^)]+)\)/, ''): the leftmost match is removed.
RemoveParenthetical(str) ==
    LET starts == {i \in 1..Len(str) : MatchesAt(str, i)}
    IN  IF starts = {} THEN str
        ELSE LET i == CHOOSE x \in starts : \A y \in starts : x <= y
                 j == CloseOf(str, SkipSpaces(str, i))
             IN  SubSeq(str, 1, i - 1) \o SubSeq(str, j + 1, Len(str))

UnregisteredDevice ==
    <<"U", "n", "r", "e", "g", "i", "s", "t", "e", "r", "e", "d", " ",
      "D", "e", "v", "i", "c", "e">>

normalizeName(name) ==
    IF name = Null THEN UnregisteredDevice
    ELSE trim(RemoveParenthetical(name))

-----------------------------------------------------------------------------
(* The logs table and its queries *)

\* Raw Name values: "Al B", "Al(p)", "Al B (p)", NULL and "Unknown (p)".
RawNames ==
    {<<"A", "l", " ", "B">>,
     <<"A", "l", "(", "p", ")">>,
     <<"A", "l", " ", "B", " ", "(", "p", ")">>,
     Null,
     <<"U", "n", "k", "n", "o", "w", "n", " ", "(", "p", ")">>}

\* A further raw Name: "Anonymous".
AnonymousName == <<"A", "n", "o", "n", "y", "m", "o", "u", "s">>

\* A further raw Name, with a character the CSV quotes: "Bo,b".
CommaName == <<"B", "o", ",", "b">>

\* The Name values of all the tables of the model.
StoredNames == RawNames \cup {AnonymousName, CommaName}

\* this.normalizeName(r.Name) for the stored names, computed once.
NormalizedNames == [n \in StoredNames |-> normalizeName(n)]

NormOf(r) == NormalizedNames[r.Name]

\* norm.toLowerCase() for the stored names, computed once.
LowerNames == [n \in StoredNames |-> toLowerCase(normalizeName(n))]


\* A row of logs as the tools select it: Name (Null for NULL or ''),
\* FirstSeen in whole seconds, LastSeen <<seconds>> or Null (NULL or '').

\* new Date(r.FirstSeen).getTime()
ParseDate(seconds) == seconds * MsPerSecond

\* SQLite date(text): the calendar day the text names.
SqlDate(seconds) == seconds \div SecondsPerDay

\* WHERE date(FirstSeen) = ? OR date(LastSeen) = ?  (date(NULL) is NULL)
OnDate(r, date) ==
    \/ SqlDate(r.FirstSeen) = date
    \/ r.LastSeen # Null /\ SqlDate(r.LastSeen[1]) = date

\* ORDER BY Name: NULL first, then BINARY order.
NameLeq(a, b) == a = b \/ StrLess(a, b)

\* ORDER BY Name, FirstSeen
LeqByNameFirstSeen(a, b) ==
    \/ a.Name # b.Name /\ NameLeq(a.Name, b.Name)
    \/ a.Name = b.Name /\ a.FirstSeen <= b.FirstSeen

\* ORDER BY FirstSeen
LeqByFirstSeen(a, b) == a.FirstSeen <= b.FirstSeen

RECURSIVE Perms(_)
Perms(S) ==
    IF S = {} THEN {<<>>}
    ELSE UNION {{Append(q, x) : q \in Perms(S \ {x})} : x \in S}

\* The row sequences db.all may resolve to for the query of getDailyReport:
\* rows that tie on the ORDER BY key come in any order.
QueryDailyReport(table, date) ==
    {q \in Perms({r \in table : OnDate(r, date)}) :
        \A i, j \in 1..Len(q) : i < j => LeqByNameFirstSeen(q[i], q[j])}

\* The same for the query of getEmployeePresence.
QueryEmployeePresence(table, date) ==
    {q \in Perms({r \in table : OnDate(r, date)}) :
        \A i, j \in 1..Len(q) : i < j => LeqByFirstSeen(q[i], q[j])}

-----------------------------------------------------------------------------
(* Sessions and totals *)

\* const end = new Date(r.LastSeen || r.FirstSeen)
EndOf(r) == IF r.LastSeen = Null THEN ParseDate(r.FirstSeen) ELSE ParseDate(r.LastSeen[1])

\* clampIntervalToDay([start, end], date) of row r
ClampRow(r, date) == clampIntervalToDay(<<ParseDate(r.FirstSeen), EndOf(r)>>, date)

\* merged.map(([s, e]) => ({ in_time: ..., out_time: ... }))
Sessions(merged) ==
    [i \in 1..Len(merged) |->
        [in_time |-> toLocalISOString(merged[i][1]),
         out_time |-> toLocalISOString(merged[i][2])]]

\* merged.reduce((acc, [s, e]) => acc + (e - s) / (1000 * 60), 0), kept in ms.
RECURSIVE TotalMs(_)
TotalMs(merged) ==
    IF merged = <<>> THEN 0
    ELSE (merged[Len(merged)][2] - merged[Len(merged)][1])
         + TotalMs(SubSeq(merged, 1, Len(merged) - 1))

MsPerHundredthHour == (60 * MsPerMinute) \div 100

ToFixed2_floor(ms, tieUp) == ms \div MsPerHundredthHour

\* Number(totalMinutes / 60).toFixed(2), as a count of hundredths of an
\* hour: the nearest one.  When the exact quotient lies halfway between two,
\* the binary double computed for it lies on either side, so toFixed gives
\* either neighbour (tieUp).
ToFixed2(ms, tieUp) ==
    LET q == ms \div MsPerHundredthHour
        r == ms % MsPerHundredthHour
    IN  IF 2 * r > MsPerHundredthHour \/ (2 * r = MsPerHundredthHour /\ tieUp)
        THEN q + 1 ELSE q

-----------------------------------------------------------------------------
(* getEmployeePresence *)

MatchingRows_exact(rows, employeeName) ==
    SelectSeq(rows, LAMBDA r : LowerNames[r.Name] = toLowerCase(employeeName))

\* The rows whose normalized name contains the target, case-insensitively.
MatchingRows(rows, employeeName) ==
    SelectSeq(rows, LAMBDA r :
        includes(LowerNames[r.Name], toLowerCase(employeeName)))

\* The clamped intervals of the rows, in row order, without the nulls.
ClampedIntervals(rows, date) ==
    LET kept == SelectSeq(rows, LAMBDA r : ClampRow(r, date) # Null)
    IN  [i \in 1..Len(kept) |-> ClampRow(kept[i], date)]

\* The value getEmployeePresence resolves to for the rows db.all gave.
getEmployeePresence(rows, employeeName, date, gapMinutes, tieUp) ==
    LET matching == MatchingRows(rows, employeeName)
        canonicalName == IF matching = <<>> THEN Null
                         ELSE NormOf(matching[1])
        intervals == ClampedIntervals(matching, date)
    IN  IF Len(intervals) = 0
        THEN [kind |-> "text", text |-> "No logs found",
              employeeName |-> employeeName, date |-> date]
        ELSE LET merged == mergeSessions(intervals, gapMinutes)
                 sessions == Sessions(merged)
             IN  [kind |-> "json",
                  body |-> [employee |-> canonicalName,
                            date |-> date,
                            sessions |-> sessions,
                            total_hours |-> ToFixed2(TotalMs(merged), tieUp),
                            first_in |-> sessions[1].in_time,
                            last_out |-> sessions[Len(sessions)].out_time]]

-----------------------------------------------------------------------------
(* getDailyReport *)

\* norm.toLowerCase().includes('unknown') || ...includes('anonymous')
IsExcluded(lower) ==
    \/ includes(lower, <<"u", "n", "k", "n", "o", "w", "n">>)
    \/ includes(lower, <<"a", "n", "o", "n", "y", "m", "o", "u", "s">>)

\* The stored names the report leaves out, computed once.
ExcludedNames == {n \in StoredNames : IsExcluded(LowerNames[n])}

ReportRows_unclamped(rows, date) ==
    SelectSeq(rows, LAMBDA r : r.Name \notin ExcludedNames)

\* The rows that reach byName: not excluded, clamped to a non-null interval.
ReportRows(rows, date) ==
    SelectSeq(rows, LAMBDA r :
        r.Name \notin ExcludedNames /\ ClampRow(r, date) # Null)

GroupNames_all(rows) == [i \in 1..Len(rows) |-> NormOf(rows[i])]

\* The keys of byName in insertion order: each normalized name once, at its
\* first row.
GroupNames(rows) ==
    LET firsts == SelectSeq([i \in 1..Len(rows) |-> i], LAMBDA i :
                     \A k \in 1..(i - 1) : NormOf(rows[k]) # NormOf(rows[i]))
    IN  [i \in 1..Len(firsts) |-> NormOf(rows[firsts[i]])]

GroupIntervals_substring(rows, name, date) ==
    ClampedIntervals(SelectSeq(rows, LAMBDA r : includes(NormOf(r), name)), date)

\* byName.get(name): the clamped intervals of the rows of that exact name.
GroupIntervals(rows, name, date) ==
    ClampedIntervals(SelectSeq(rows, LAMBDA r : NormOf(r) = name), date)

\* One element of employees.
EmployeeEntry(name, ivals, gapMinutes, tieUp) ==
    LET merged == mergeSessions(ivals, gapMinutes)
        sessions == Sessions(merged)
    IN  [name |-> name,
         first_in |-> IF sessions = <<>> THEN Null ELSE sessions[1].in_time,
         last_out |-> IF sessions = <<>> THEN Null ELSE sessions[Len(sessions)].out_time,
         sessions |-> sessions,
         total_hours |-> ToFixed2(TotalMs(merged), tieUp)]

\* (a || '').localeCompare(b || '') < 0 on the texts of toLocalISOString:
\* fields of fixed width, so field by field; '' is below every text.
RECURSIVE TimeTextLess(_, _)
TimeTextLess(a, b) ==
    IF b = <<>> THEN FALSE
    ELSE IF a = <<>> THEN TRUE
    ELSE IF a[1] = b[1] THEN TimeTextLess(Tail(a), Tail(b))
    ELSE a[1] < b[1]

\* employees.sort((a, b) => (a.first_in || '').localeCompare(b.first_in || '')):
\* stable.
RECURSIVE InsertByFirstIn(_, _)
InsertByFirstIn(sorted, x) ==
    IF sorted = <<>> THEN <<x>>
    ELSE IF ~TimeTextLess(x.first_in, sorted[Len(sorted)].first_in)
         THEN Append(sorted, x)
    ELSE Append(InsertByFirstIn(SubSeq(sorted, 1, Len(sorted) - 1), x),
                sorted[Len(sorted)])

RECURSIVE SortByFirstIn_from(_, _)
SortByFirstIn_from(employees, n) ==
    IF n = 0 THEN <<>>
    ELSE InsertByFirstIn(SortByFirstIn_from(employees, n - 1), employees[n])

SortByFirstIn(employees) == SortByFirstIn_from(employees, Len(employees))

\* The report getDailyReport builds from the rows db.all gave.
getDailyReport(rows, date, gapMinutes, tieUp) ==
    LET kept == ReportRows(rows, date)
        names == GroupNames(kept)
        employees == [i \in 1..Len(names) |->
                         EmployeeEntry(names[i], GroupIntervals(kept, names[i], date),
                                       gapMinutes, tieUp)]
    IN  [date |-> date,
         total_employees |-> Len(employees),
         employees |-> SortByFirstIn(employees)]

\* The reports getDailyReport may resolve to on the table.
DailyReports(table, date, gapMinutes, tieUp) ==
    {getDailyReport(rows, date, gapMinutes, tieUp) :
        rows \in QueryDailyReport(table, date)}

-----------------------------------------------------------------------------
(* The presenceAnalytics tool *)

\* A date argument new Date() cannot parse (such as 'soon').
InvalidDateText == 0 - 1

\* The getTime() of an Invalid Date; no instant of the model is negative.
NaN == 0 - 1

\* new Date(startDate).getTime(): a date-only text is read as midnight UTC.
ParseUTCDate(date) == IF date = InvalidDateText THEN NaN ELSE date * MsPerDay

\* d <= end on two Dates: false when either is an Invalid Date.
DateLeq(d, end) == d # NaN /\ end # NaN /\ d <= end

\* d.toISOString().slice(0, 10)
ISODate(d) == d \div MsPerDay

MsPerHour == 60 * MsPerMinute

\* The zones of the host: Asia/Manila (UTC+8 all year) and Europe/Berlin
\* with day 1 the last Sunday of March (UTC+1, UTC+2 from 01:00 UTC of
\* day 1 on, when local clocks go from 02:00 to 03:00).
HostZones == {"Asia/Manila", "Europe/Berlin"}

\* The UTC instant of day 1 at which Europe/Berlin changes its offset.
SpringForward == MsPerDay + MsPerHour

\* Local time minus UTC at the UTC instant utc, in ms.
UtcOffset(zone, utc) ==
    IF zone = "Asia/Manila" THEN 8 * MsPerHour
    ELSE IF utc < SpringForward THEN MsPerHour
    ELSE 2 * MsPerHour

\* d.setDate(d.getDate() + 1): the instant whose local date is one more and
\* whose local time of day is that of d.
NextDay(d, zone) ==
    LET wall == d + UtcOffset(zone, d) + MsPerDay
        sameOffset == wall - UtcOffset(zone, d)
    IN  wall - UtcOffset(zone, sameOffset)

\* The dayStr values of the loop for (d = start; d <= end; next day).
RECURSIVE LoopDays(_, _, _)
LoopDays(d, end, zone) ==
    IF DateLeq(d, end) THEN <<ISODate(d)>> \o LoopDays(NextDay(d, zone), end, zone)
    ELSE <<>>

\* The entries pushed for name over the days, in day order.
RECURSIVE EntriesOf(_, _)
EntriesOf(name, days) ==
    IF days = <<>> THEN <<>>
    ELSE LET day == days[Len(days)]
             hits == SelectSeq(day.employees, LAMBDA e : e.name = name)
         IN  EntriesOf(name, SubSeq(days, 1, Len(days) - 1)) \o
             [i \in 1..Len(hits) |->
                 [date |-> day.date, first_in |-> hits[i].first_in,
                  last_out |-> hits[i].last_out, total_hours |-> hits[i].total_hours]]

\* The names of the employees of all days, in day order then report order.
RECURSIVE AllNames(_)
AllNames(days) ==
    IF days = <<>> THEN <<>>
    ELSE AllNames(SubSeq(days, 1, Len(days) - 1)) \o
         [i \in 1..Len(days[Len(days)].employees) |-> days[Len(days)].employees[i].name]

\* The keys of the byName map of the handler, in insertion order.
FirstOccurrences(names) ==
    LET firsts == SelectSeq([i \in 1..Len(names) |-> i], LAMBDA i :
                     \A k \in 1..(i - 1) : names[k] # names[i])
    IN  [i \in 1..Len(firsts) |-> names[firsts[i]]]

\* entries.reduce((acc, e) => acc + Number(e.total_hours || 0), 0), in
\* hundredths of an hour.
RECURSIVE SumHours(_)
SumHours(entries) ==
    IF entries = <<>> THEN 0
    ELSE entries[Len(entries)].total_hours + SumHours(SubSeq(entries, 1, Len(entries) - 1))

\* The summary built from the days collected by the loop.
Summarize(startDate, endDate, days) ==
    LET names == FirstOccurrences(AllNames(days))
    IN  [kind |-> "json",
         body |-> [startDate |-> startDate,
                   endDate |-> endDate,
                   employees |-> [i \in 1..Len(names) |->
                       LET entries == EntriesOf(names[i], days)
                       IN  [name |-> names[i],
                            days_present |-> Len(entries),
                            total_hours |-> SumHours(entries),
                            days |-> entries]]]]

\* The values the presenceAnalytics case may resolve to on the table.
presenceAnalytics(table, startDate, endDate, gapMinutes, tieUp, zone) ==
    LET dayStrs == LoopDays(ParseUTCDate(startDate), ParseUTCDate(endDate), zone)
        reports == [i \in 1..Len(dayStrs) |->
                       DailyReports(table, dayStrs[i], gapMinutes, tieUp)]
        choices == {c \in [1..Len(dayStrs) -> UNION {reports[i] : i \in 1..Len(dayStrs)}] :
                       \A i \in 1..Len(dayStrs) : c[i] \in reports[i]}
    IN  {Summarize(startDate, endDate,
                   [i \in 1..Len(dayStrs) |->
                       [date |-> dayStrs[i], employees |-> c[i].employees]]) :
            c \in choices}

-----------------------------------------------------------------------------
(* getCurrentlyPresent and exportReport *)

\* The UTC instant of the local wall-clock instant local, in ms.
UtcOf(local, zone) ==
    LET sameOffset == local - UtcOffset(zone, local)
    IN  local - UtcOffset(zone, sameOffset)

\* datetime('now', '-N minutes'), in seconds: SQLite's now is UTC.
SqlThreshold(now, zone, windowMinutes) ==
    UtcOf(now * MsPerSecond, zone) \div MsPerSecond - windowMinutes * 60

\* The rows of SELECT Name, MAX(LastSeen) ... WHERE datetime(LastSeen) >
\* datetime('now', ?) GROUP BY Name: the stored local text is compared with
\* the UTC threshold as written; a NULL LastSeen never passes.
RecentGroups(table, threshold) ==
    LET recent == {r \in table : r.LastSeen # Null /\ r.LastSeen[1] > threshold}
    IN  {[Name |-> n,
          last_seen |-> CHOOSE t \in {r.LastSeen[1] : r \in {x \in recent : x.Name = n}} :
                           \A r \in recent : r.Name = n => r.LastSeen[1] <= t] :
            n \in {r.Name : r \in recent}}

\* The row sequences db.all may resolve to (no ORDER BY).
QueryCurrentlyPresent(table, threshold) == Perms(RecentGroups(table, threshold))

\* /unknown|anonymous/i.test(name)
MatchesUnknownAnonymous_unknown(name) ==
    includes(toLowerCase(name), <<"u", "n", "k", "n", "o", "w", "n">>)

MatchesUnknownAnonymous(name) ==
    \/ includes(toLowerCase(name), <<"u", "n", "k", "n", "o", "w", "n">>)
    \/ includes(toLowerCase(name), <<"a", "n", "o", "n", "y", "m", "o", "u", "s">>)

\* The result getCurrentlyPresent builds from the rows; timestamp in seconds.
getCurrentlyPresent(rows, timestamp) ==
    LET employees == SelectSeq([i \in 1..Len(rows) |->
                                   [name |-> NormOf(rows[i]),
                                    last_seen |-> rows[i].last_seen]],
                               LAMBDA e : ~MatchesUnknownAnonymous(e.name))
    IN  [timestamp |-> timestamp, count |-> Len(employees), employees |-> employees]

\* The empty string.
EmptyText == <<>>

\* String(v).replace(/"/g, '""')
RECURSIVE DoubleQuotes(_)
DoubleQuotes(v) ==
    IF v = <<>> THEN <<>>
    ELSE (IF v[1] = "\"" THEN <<"\"", "\"">> ELSE <<v[1]>>) \o DoubleQuotes(Tail(v))

\* /,|"/.test(v) ? `"${...}"` : v, for a name; the time and hour texts hold
\* neither character.
CsvField(v) ==
    IF includes(v, <<",">>) \/ includes(v, <<"\"">>)
    THEN <<"\"">> \o DoubleQuotes(v) \o <<"\"">>
    ELSE v

\* Math.max(0, ...payload.employees.map(e => e.sessions.length))
MaxSessions(employees) ==
    Max(0, CHOOSE n \in {0} \cup {Len(employees[i].sessions) : i \in 1..Len(employees)} :
              \A i \in 1..Len(employees) : Len(employees[i].sessions) <= n)

\* The header fields: Name, In1, Out1, ..., TotalHours.
CsvHeader(maxSessions) ==
    [k \in 1..(2 * maxSessions + 2) |->
        IF k = 1 THEN <<"Name">>
        ELSE IF k = 2 * maxSessions + 2 THEN <<"TotalHours">>
        ELSE IF k % 2 = 0 THEN <<"In", k \div 2>> ELSE <<"Out", k \div 2>>]

\* The fields of the line of one employee, without fields for the sessions
\* the employee lacks.
CsvRow_own(emp, maxSessions) ==
    [k \in 1..(2 * Len(emp.sessions) + 2) |->
        IF k = 1 THEN CsvField(emp.name)
        ELSE IF k = 2 * Len(emp.sessions) + 2 THEN emp.total_hours
        ELSE IF k % 2 = 0 THEN emp.sessions[k \div 2].in_time
        ELSE emp.sessions[k \div 2].out_time]

\* The fields of the line of one employee.
CsvRow(emp, maxSessions) ==
    [k \in 1..(2 * maxSessions + 2) |->
        IF k = 1 THEN CsvField(emp.name)
        ELSE IF k = 2 * maxSessions + 2 THEN emp.total_hours
        ELSE IF k \div 2 > Len(emp.sessions) THEN EmptyText
        ELSE IF k % 2 = 0 THEN emp.sessions[k \div 2].in_time
        ELSE emp.sessions[k \div 2].out_time]

\* The lines of the CSV exportReport builds from the daily report, each as
\* the fields it joins with ','.
exportReport(payload) ==
    LET maxSessions == MaxSessions(payload.employees)
    IN  <<CsvHeader(maxSessions)>> \o
        [i \in 1..Len(payload.employees) |-> CsvRow(payload.employees[i], maxSessions)]

-----------------------------------------------------------------------------
(* Calls of the two pure functions on drawn inputs *)

\* Instants (ms) the merged intervals are drawn from: 0:00:00, 0:15:00,
\* 0:30:00, 0:30:01 and 0:45:01, so that gaps fall below, on and one second
\* above both tolerances.
MergeTimes == {0, 15 * MsPerMinute, 30 * MsPerMinute,
               30 * MsPerMinute + MsPerSecond, 45 * MsPerMinute + MsPerSecond}

\* Well-formed intervals (start <= end).
MergeIntervals == {iv \in MergeTimes \X MergeTimes : iv[1] <= iv[2]}

MergeGaps == {15, 30}

RECURSIVE SeqsUpTo(_, _)
SeqsUpTo(S, n) ==
    IF n = 0 THEN {<<>>}
    ELSE LET shorter == SeqsUpTo(S, n - 1)
         IN  shorter \cup {Append(q, x) : q \in {p \in shorter : Len(p) = n - 1}, x \in S}

\* The server object as constructed, with no tool call in flight.
Constructed ==
    /\ db = Null
    /\ dbPath = DefaultPath
    /\ tasks = <<>>
    /\ configured = Null

InitMerge ==
    /\ Constructed
    /\ files = <<>>
    /\ logs = {}
    /\ pc = "call"
    /\ \E ivs \in SeqsUpTo(MergeIntervals, MaxIntervals), g \in MergeGaps :
          req = [op |-> "mergeSessions", intervals |-> ivs, gapMinutes |-> g]
    /\ resp = NoResp

CallMerge ==
    /\ pc = "call"
    /\ req.op = "mergeSessions"
    /\ resp' = [kind |-> "sessions",
                value |-> mergeSessions(req.intervals, req.gapMinutes)]
    /\ pc' = "done"
    /\ UNCHANGED <<logs, req, conn>>

NextMerge == CallMerge

SpecMerge == InitMerge /\ [][NextMerge]_vars

\* Instants (ms) the clamped intervals are drawn from, over days 0..2:
\* midnights, the last second of a day, half a second after it, and times
\* inside the days.
ClampTimes == {DayStart(0), 9 * 60 * MsPerMinute, DayEnd(0) - 9 * MsPerMinute - 59 * MsPerSecond,
               DayEnd(0), DayEnd(0) + 500, DayStart(1), DayStart(1) + 10 * MsPerMinute,
               DayEnd(1), DayStart(2), DayStart(2) + 9 * 60 * MsPerMinute}

ClampDays == {0, 1, 2}

InitClamp ==
    /\ Constructed
    /\ files = <<>>
    /\ logs = {}
    /\ pc = "call"
    /\ \E iv \in ClampTimes \X ClampTimes, day \in ClampDays :
          req = [op |-> "clampIntervalToDay", interval |-> iv, day |-> day]
    /\ resp = NoResp

CallClamp ==
    /\ pc = "call"
    /\ req.op = "clampIntervalToDay"
    /\ resp' = [kind |-> "interval",
                value |-> clampIntervalToDay(req.interval, req.day)]
    /\ pc' = "done"
    /\ UNCHANGED <<logs, req, conn>>

\* Clamping the interval just returned to the same day again.
CallClampAgain ==
    /\ pc = "done"
    /\ req.op = "clampIntervalToDay"
    /\ resp.value # Null
    /\ req' = [op |-> "clampIntervalToDay", interval |-> resp.value, day |-> req.day,
               first |-> req.interval]
    /\ resp' = [kind |-> "interval",
                value |-> clampIntervalToDay(resp.value, req.day)]
    /\ pc' = "again"
    /\ UNCHANGED <<logs, conn>>

NextClamp == CallClamp \/ CallClampAgain

SpecClamp == InitClamp /\ [][NextClamp]_vars

-----------------------------------------------------------------------------
(* The MCP server on a stored table *)

\* The second of day `day` at h:m:s.
At(day, h, m, sec) == day * SecondsPerDay + h * 3600 + m * 60 + sec

\* FirstSeen/LastSeen pairs: a point observation (LastSeen NULL), a span of
\* 4.5 minutes (0.075 h), a span of 30 minutes, a span across midnight, a
\* row whose LastSeen precedes its FirstSeen, and two hours on day 1.
SeenPairs ==
    {<<At(0, 9, 0, 0), Null>>,
     <<At(0, 9, 0, 0), <<At(0, 9, 4, 30)>>>>,
     <<At(0, 9, 20, 0), <<At(0, 9, 50, 0)>>>>,
     <<At(0, 23, 50, 0), <<At(1, 0, 10, 0)>>>>,
     <<At(0, 9, 20, 0), <<At(0, 9, 0, 0)>>>>,
     <<At(1, 9, 0, 0), <<At(1, 11, 0, 0)>>>>}

RowUniverse ==
    {[Name |-> n, FirstSeen |-> p[1], LastSeen |-> p[2]] : n \in RawNames, p \in SeenPairs}

\* The subsets of S of at most n elements.
RECURSIVE SubsetsUpTo(_, _)
SubsetsUpTo(S, n) ==
    IF n = 0 THEN {{}}
    ELSE LET smaller == SubsetsUpTo(S, n - 1)
         IN  smaller \cup {t \cup {x} : t \in smaller, x \in S}

\* The tables of at most MaxRows rows.
Tables == SubsetsUpTo(RowUniverse, MaxRows)

\* The dates of the requests (the stored events lie on days 0 and 1).
Days == {0, 1, 2}

\* employeeName arguments: "al", "Al B" and "zz".
QueryNames == {<<"a", "l">>, <<"A", "l", " ", "B">>, <<"z", "z">>}

\* gapMinutes arguments (30 is the default).
Gaps == {15, 30}

NoReq == [op |-> "none"]

\* await this.ensureDb(), run to its end: the handle after it.
ensureDb == IF db = Null THEN <<dbPath>> ELSE db

Init ==
    /\ Constructed
    /\ logs \in Tables
    /\ files = (DefaultPath :> logs)
    /\ pc = "idle"
    /\ req = NoReq
    /\ resp = NoResp

\* tools/call employeePresence
EmployeePresence ==
    /\ pc = "idle"
    /\ \E employeeName \in QueryNames, date \in Days, gapMinutes \in Gaps,
          tieUp \in BOOLEAN :
          \E rows \in QueryEmployeePresence(logs, date) :
             /\ req' = [op |-> "employeePresence", employeeName |-> employeeName,
                        date |-> date, gapMinutes |-> gapMinutes]
             /\ resp' = getEmployeePresence(rows, employeeName, date, gapMinutes, tieUp)
    /\ pc' = "replied"
    /\ db' = ensureDb
    /\ UNCHANGED <<logs, dbPath, files, tasks, configured>>

\* tools/call of a tool that is getDailyReport alone (exportReport and
\* presenceAnalytics call the method).
DailyReport ==
    /\ pc = "idle"
    /\ \E date \in Days, gapMinutes \in Gaps, tieUp \in BOOLEAN :
          \E report \in DailyReports(logs, date, gapMinutes, tieUp) :
             /\ req' = [op |-> "getDailyReport", date |-> date, gapMinutes |-> gapMinutes]
             /\ resp' = [kind |-> "json", body |-> report]
    /\ pc' = "replied"
    /\ db' = ensureDb
    /\ UNCHANGED <<logs, dbPath, files, tasks, configured>>

\* tools/call presenceAnalytics, on a host whose zone is TZ
PresenceAnalytics ==
    /\ pc = "idle"
    /\ \E startDate \in Days, endDate \in Days, gapMinutes \in Gaps, tieUp \in BOOLEAN,
          zone \in HostZones :
          \E result \in presenceAnalytics(logs, startDate, endDate, gapMinutes, tieUp, zone) :
             /\ req' = [op |-> "presenceAnalytics", startDate |-> startDate,
                        endDate |-> endDate, gapMinutes |-> gapMinutes, TZ |-> zone]
             /\ resp' = result
    /\ pc' = "replied"
    /\ db' = ensureDb
    /\ UNCHANGED <<logs, dbPath, files, tasks, configured>>

\* The response is sent; the server waits for the next request.
Reply ==
    /\ pc = "replied"
    /\ pc' = "idle"
    /\ req' = NoReq
    /\ resp' = NoResp
    /\ UNCHANGED <<logs, conn>>

Next == EmployeePresence \/ DailyReport \/ Reply

Spec == Init /\ [][Next]_vars

-----------------------------------------------------------------------------
(* The MCP server with all its reporting tools, on tables with spans over *)
(* several days and excluded names                                         *)

\* FirstSeen/LastSeen pairs: from day 0 09:00 to day 2 01:00, two hours on
\* day 1, a point observation on day 0, and a row whose LastSeen precedes
\* its FirstSeen.
ToolPairs ==
    {<<At(0, 9, 0, 0), <<At(2, 1, 0, 0)>>>>,
     <<At(1, 9, 0, 0), <<At(1, 11, 0, 0)>>>>,
     <<At(0, 9, 0, 0), Null>>,
     <<At(0, 9, 20, 0), <<At(0, 9, 0, 0)>>>>}

\* Raw Name values: "Al B", "Al(p)", "Unknown (p)" and "Anonymous".
ToolNames ==
    {<<"A", "l", " ", "B">>,
     <<"A", "l", "(", "p", ")">>,
     <<"U", "n", "k", "n", "o", "w", "n", " ", "(", "p", ")">>,
     AnonymousName}

ToolRows ==
    {[Name |-> n, FirstSeen |-> p[1], LastSeen |-> p[2]] : n \in ToolNames, p \in ToolPairs}

ToolTables == SubsetsUpTo(ToolRows, MaxRows)

\* Local times of the currentStatus calls: day 1 11:10 and day 2 01:20.
Nows == {At(1, 11, 10, 0), At(2, 1, 20, 0)}

\* windowMinutes arguments (30 is the default).
Windows == {30, 60}

InitTools ==
    /\ Constructed
    /\ logs \in ToolTables
    /\ files = (DefaultPath :> logs)
    /\ pc = "idle"
    /\ req = NoReq
    /\ resp = NoResp

\* tools/call currentStatus at the local time now of a host of zone TZ
CurrentStatus ==
    /\ pc = "idle"
    /\ \E windowMinutes \in Windows, now \in Nows, zone \in HostZones :
          \E rows \in QueryCurrentlyPresent(logs, SqlThreshold(now, zone, windowMinutes)) :
             /\ req' = [op |-> "currentStatus", windowMinutes |-> windowMinutes,
                        now |-> now, TZ |-> zone]
             /\ resp' = [kind |-> "json",
                         body |-> getCurrentlyPresent(rows,
                                     UtcOf(now * MsPerSecond, zone) \div MsPerSecond)]
    /\ pc' = "replied"
    /\ db' = ensureDb
    /\ UNCHANGED <<logs, dbPath, files, tasks, configured>>

\* tools/call exportReport
ExportReport ==
    /\ pc = "idle"
    /\ \E date \in Days, gapMinutes \in Gaps, tieUp \in BOOLEAN :
          \E report \in DailyReports(logs, date, gapMinutes, tieUp) :
             /\ req' = [op |-> "exportReport", date |-> date, gapMinutes |-> gapMinutes]
             /\ resp' = [kind |-> "csv", lines |-> exportReport(report)]
    /\ pc' = "replied"
    /\ db' = ensureDb
    /\ UNCHANGED <<logs, dbPath, files, tasks, configured>>

NextTools ==
    \/ EmployeePresence
    \/ DailyReport
    \/ PresenceAnalytics
    \/ CurrentStatus
    \/ ExportReport
    \/ Reply

SpecTools == InitTools /\ [][NextTools]_vars

-----------------------------------------------------------------------------
(* Tool calls that interleave at their awaits *)

\* A database file other than the default one.
OtherPath == "other.sqlite"

\* A path sqlite cannot open (its directory does not exist).
BadPath == "missing/database.sqlite"

\* The path argument left out.
NoPath == ""

\* path arguments of configureDatabase
PathArgs == {NoPath, OtherPath, BadPath}

\* Request ids of the calls that may be in flight together.
TaskIds == {1, 2}

\* Rows of the database files: two hours on day 1, and a span from day 1
\* into day 2.
FileRows ==
    {[Name |-> <<"A", "l", " ", "B">>, FirstSeen |-> At(1, 9, 0, 0),
      LastSeen |-> <<At(1, 11, 0, 0)>>],
     [Name |-> <<"A", "l", "(", "p", ")">>, FirstSeen |-> At(1, 23, 50, 0),
      LastSeen |-> <<At(2, 0, 10, 0)>>]}

\* The database files on disk.
FileSystems == [{DefaultPath, OtherPath} -> {{}, FileRows}]

\* startDate and endDate arguments.
Dates == {1, 2, InvalidDateText}

\* gapMinutes = 30 when the argument is left out.
DefaultGap == 30

\* No call with this request id.
IdleTask == [pc |-> "idle", op |-> "none"]

\* The text result of the catch of the handler.
ErrorResp(message) == [kind |-> "error", message |-> message]

\* await this.ensureDb(), up to its first await: initialize() awaits the
\* open of this.dbPath when there is no handle.
CallEnsureDb(task) ==
    IF db = Null THEN [task EXCEPT !.pc = "opening", !.opening = dbPath]
    ELSE [task EXCEPT !.pc = "ensured"]

\* The test of the day loop: the next getDailyReport call up to its first
\* await, or the summary once d <= end fails.
LoopTest(task) ==
    IF DateLeq(task.d, ParseUTCDate(task.endDate)) THEN CallEnsureDb(task)
    ELSE [task EXCEPT !.pc = "done",
                      !.resp = Summarize(task.startDate, task.endDate, task.days)]

\* tools/call presenceAnalytics arrives: the handler runs to its first await.
StartPresenceAnalytics(t) ==
    /\ tasks[t].pc = "idle"
    /\ \E startDate \in Dates, endDate \in Dates, zone \in HostZones :
          tasks' = [tasks EXCEPT ![t] = LoopTest(
                       [pc |-> "start", op |-> "presenceAnalytics",
                        startDate |-> startDate, endDate |-> endDate,
                        gapMinutes |-> DefaultGap, TZ |-> zone,
                        d |-> ParseUTCDate(startDate), days |-> <<>>,
                        sources |-> <<>>, opening |-> NoPath,
                        expect |-> configured, resp |-> NoResp])]
    /\ UNCHANGED <<db, dbPath, files, configured, call>>

\* A change of path begins: calls in flight are no longer held to the path
\* configured before.
Unsettle(task) ==
    IF task.op = "presenceAnalytics" THEN [task EXCEPT !.expect = Null] ELSE task

\* tools/call configureDatabase arrives: with a path, this.db = null and
\* initialize(newPath) awaits the open; without, ensureDb.
StartConfigureDatabase(t) ==
    /\ tasks[t].pc = "idle"
    /\ \E path \in PathArgs :
          LET task == [pc |-> "start", op |-> "configureDatabase", path |-> path,
                       opening |-> NoPath, resp |-> NoResp]
          IN  IF path # NoPath
              THEN /\ db' = Null
                   /\ tasks' = [u \in DOMAIN tasks |->
                                   IF u = t
                                   THEN [task EXCEPT !.pc = "opening", !.opening = path]
                                   ELSE Unsettle(tasks[u])]
                   /\ configured' = Null
              ELSE /\ tasks' = [tasks EXCEPT ![t] = CallEnsureDb(task)]
                   /\ UNCHANGED <<db, configured>>
    /\ UNCHANGED <<dbPath, files, call>>

\* The open of initialize settles: this.db and this.dbPath are assigned, or
\* the rejection is rethrown up to the catch of the handler.
Opened(t) ==
    /\ tasks[t].pc = "opening"
    /\ IF tasks[t].opening \in DOMAIN files
       THEN /\ db' = <<tasks[t].opening>>
            /\ dbPath' = tasks[t].opening
            /\ tasks' = [tasks EXCEPT ![t].pc = "ensured"]
       ELSE /\ tasks' = [tasks EXCEPT ![t].pc = "done",
                                      ![t].resp = ErrorResp("SQLITE_CANTOPEN")]
            /\ UNCHANGED <<db, dbPath>>
    /\ UNCHANGED <<files, configured, call>>

\* Some other call is changing the path.
ChangeInFlight(t) ==
    \E u \in DOMAIN tasks :
       /\ u # t
       /\ tasks[u].op = "configureDatabase"
       /\ tasks[u].path # NoPath
       /\ tasks[u].pc \in {"opening", "ensured"}

\* The await of ensureDb or initialize resumes its caller: configureDatabase
\* returns this.dbPath; getDailyReport calls this.db.all, which throws a
\* TypeError when this.db is null.
Resume(t) ==
    /\ tasks[t].pc = "ensured"
    /\ IF tasks[t].op = "configureDatabase"
       THEN /\ tasks' = [tasks EXCEPT ![t].pc = "done",
                                      ![t].resp = [kind |-> "json",
                                                   body |-> [dbPath |-> dbPath]]]
            /\ configured' = IF tasks[t].path = NoPath THEN configured
                             ELSE IF ChangeInFlight(t) THEN Null
                             ELSE <<tasks[t].path>>
       ELSE /\ tasks' = [tasks EXCEPT ![t] =
                           IF db = Null
                           THEN [@ EXCEPT !.pc = "done",
                                          !.resp = ErrorResp("Cannot read properties of null")]
                           ELSE [@ EXCEPT !.pc = "querying",
                                          !.sources = Append(@, db[1])]]
            /\ UNCHANGED configured
    /\ UNCHANGED <<db, dbPath, files, call>>

\* db.all settles with the rows of the file the handle is on: getDailyReport
\* returns its report, the loop pushes the day, steps d and tests again.
Resolved(t) ==
    /\ tasks[t].pc = "querying"
    /\ LET task == tasks[t]
           dayStr == ISODate(task.d)
           table == files[task.sources[Len(task.sources)]]
       IN  \E tieUp \in BOOLEAN :
             \E report \in DailyReports(table, dayStr, task.gapMinutes, tieUp) :
                tasks' = [tasks EXCEPT ![t] = LoopTest(
                             [task EXCEPT !.days = Append(@, [date |-> dayStr,
                                                              employees |-> report.employees]),
                                          !.d = NextDay(@, task.TZ)])]
    /\ UNCHANGED <<db, dbPath, files, configured, call>>

\* The result of the handler is sent.
ReplyTask(t) ==
    /\ tasks[t].pc = "done"
    /\ tasks' = [tasks EXCEPT ![t] = IdleTask]
    /\ UNCHANGED <<db, dbPath, files, configured, call>>

InitAsync ==
    /\ logs = {}
    /\ pc = "idle"
    /\ req = NoReq
    /\ resp = NoResp
    /\ db = Null
    /\ dbPath = DefaultPath
    /\ files \in FileSystems
    /\ tasks = [t \in TaskIds |-> IdleTask]
    /\ configured = Null

NextAsync ==
    \/ \E t \in TaskIds : StartPresenceAnalytics(t)
    \/ \E t \in TaskIds : StartConfigureDatabase(t)
    \/ \E t \in TaskIds : Opened(t)
    \/ \E t \in TaskIds : Resume(t)
    \/ \E t \in TaskIds : Resolved(t)
    \/ \E t \in TaskIds : ReplyTask(t)

SpecAsync == InitAsync /\ [][NextAsync]_vars

-----------------------------------------------------------------------------
(* The accumulation of presenceAnalytics on day lists in any order *)

\* The day lists the loop may collect on the table over days 0..2 (30
\* minutes of gap), one { date, employees } per day in date order.
CollectedDays(table) ==
    {[i \in 1..3 |-> [date |-> i - 1, employees |-> c[i].employees]] :
        c \in {f \in [1..3 -> UNION {DailyReports(table, d, DefaultGap, TRUE) : d \in 0..2}] :
                  \A i \in 1..3 : f[i] \in DailyReports(table, i - 1, DefaultGap, TRUE)}}

\* The lists holding the elements of days in some order.
Reorderings(days) ==
    {[i \in 1..Len(days) |-> days[p[i]]] : p \in Perms(1..Len(days))}

InitSummarize ==
    /\ Constructed
    /\ logs \in ToolTables
    /\ files = (DefaultPath :> logs)
    /\ pc = "call"
    /\ \E days \in CollectedDays(logs) :
          req = [op |-> "summarize", startDate |-> 0, endDate |-> 2, days |-> days]
    /\ resp = NoResp

\* The accumulation and summary of the handler on the days in date order.
CallSummarize ==
    /\ pc = "call"
    /\ req.op = "summarize"
    /\ resp' = Summarize(req.startDate, req.endDate, req.days)
    /\ pc' = "done"
    /\ UNCHANGED <<logs, req, conn>>

\* The same on the same day reports accumulated in another order.
CallSummarizeReordered ==
    /\ pc = "done"
    /\ req.op = "summarize"
    /\ \E days \in Reorderings(req.days) :
          /\ req' = [op |-> "summarize", startDate |-> req.startDate,
                     endDate |-> req.endDate, days |-> days, first |-> resp]
          /\ resp' = Summarize(req.startDate, req.endDate, days)
    /\ pc' = "again"
    /\ UNCHANGED <<logs, conn>>

NextSummarize == CallSummarize \/ CallSummarizeReordered

SpecSummarize == InitSummarize /\ [][NextSummarize]_vars

-----------------------------------------------------------------------------
(* Claims about mergeSessions (SpecMerge) *)

MergeDone == pc = "done" /\ req.op = "mergeSessions"

\* Some interval of the input starts before an interval that precedes it.
InputUnsorted(ivs) ==
    \E i, j \in 1..Len(ivs) : i < j /\ ivs[i][1] > ivs[j][1]

\* Some interval of the input lies inside another that starts earlier and
\* ends later.
InputNested(ivs) ==
    \E i, j \in 1..Len(ivs) : ivs[i][1] < ivs[j][1] /\ ivs[j][2] < ivs[i][2]

\* C1: for every list of well-formed intervals, in any order, overlapping or
\* nested, and every gapMinutes > 0, the sessions mergeSessions returns are
\* well-formed, pairwise disjoint and strictly sorted by start ascending.
C1_SessionsDisjointSorted ==
    MergeDone =>
        LET out == resp.value
        IN  /\ \A i \in 1..Len(out) : out[i][1] <= out[i][2]
            /\ \A i, j \in 1..Len(out) :
                  i < j => out[i][2] < out[j][1] /\ out[i][1] < out[j][1]

C1_Witness ==
    /\ MergeDone
    /\ Len(resp.value) >= 2
    /\ InputUnsorted(req.intervals)
    /\ InputNested(req.intervals)

\* C2: for every pair of adjacent sessions (a, b) returned by mergeSessions,
\* b.start - a.end exceeds gapMinutes strictly; a.end is not below the end of
\* any input interval starting before b, so this holds also when an earlier
\* interval in start order ends later than a following one.
C2_AdjacentGapExceeds ==
    MergeDone =>
        LET out == resp.value
            ivs == req.intervals
        IN  \A i \in 1..(Len(out) - 1) :
               /\ out[i + 1][1] - out[i][2] > req.gapMinutes * MsPerMinute
               /\ \A k \in 1..Len(ivs) :
                     ivs[k][1] < out[i + 1][1] => ivs[k][2] <= out[i][2]

C2_Witness ==
    /\ MergeDone
    /\ Len(resp.value) >= 2
    /\ InputNested(req.intervals)
    /\ \E i \in 1..(Len(resp.value) - 1) :
          resp.value[i + 1][1] - resp.value[i][2] = req.gapMinutes * MsPerMinute + MsPerSecond

-----------------------------------------------------------------------------
(* Claims about clampIntervalToDay (SpecClamp) *)

ClampDone == pc = "done" /\ req.op = "clampIntervalToDay"

\* C3: clampIntervalToDay returns [max(start, dayStart), min(end, dayEnd)]
\* and none exactly when that end precedes that start; a well-formed
\* interval gets none exactly when it does not intersect [dayStart, dayEnd];
\* every interval returned lies inside the day and is well-formed.
C3_ClampToDay ==
    ClampDone =>
        LET start == req.interval[1]
            end == req.interval[2]
            dayStart == DayStart(req.day)
            dayEnd == DayEnd(req.day)
            s == IF start >= dayStart THEN start ELSE dayStart
            e == IF end <= dayEnd THEN end ELSE dayEnd
            out == resp.value
        IN  /\ (out = Null) <=> (e < s)
            /\ out # Null => out = <<s, e>>
            /\ start <= end => ((out = Null) <=> (end < dayStart \/ start > dayEnd))
            /\ out # Null => dayStart <= out[1] /\ out[1] <= out[2] /\ out[2] <= dayEnd

\* An event spanning midnight, clamped to its second day: [00:00:00, end].
C3_Witness ==
    /\ ClampDone
    /\ req.day = 1
    /\ req.interval[1] < DayStart(1)
    /\ req.interval[1] >= DayStart(0)
    /\ req.interval[2] = DayStart(1) + 10 * MsPerMinute
    /\ resp.value = <<DayStart(1), DayStart(1) + 10 * MsPerMinute>>

\* C4: clamping is idempotent: clamping an interval clampIntervalToDay
\* returned to the same day again returns that interval.
C4_ClampIdempotent ==
    (pc = "again" /\ req.op = "clampIntervalToDay") => resp.value = req.interval

\* The first clamp cut the interval on both sides.
C4_Witness ==
    /\ pc = "again"
    /\ req.op = "clampIntervalToDay"
    /\ req.first[1] < req.interval[1]
    /\ req.first[2] > req.interval[2]
    /\ resp.value = req.interval

-----------------------------------------------------------------------------
(* Claims about the tools (Spec) *)

Replied(op) == pc = "replied" /\ req.op = op

\* The instant (ms) a text of toLocalISOString names.
ParseLocalISO(text) ==
    (((text[1] * 24 + text[2]) * 60 + text[3]) * 60 + text[4]) * MsPerSecond

\* The sum over the sessions of out_time - in_time, in ms.
RECURSIVE SessionsMs(_)
SessionsMs(sessions) ==
    IF sessions = <<>> THEN 0
    ELSE ParseLocalISO(sessions[Len(sessions)].out_time)
         - ParseLocalISO(sessions[Len(sessions)].in_time)
         + SessionsMs(SubSeq(sessions, 1, Len(sessions) - 1))

\* hundredths is a count of hundredths of an hour nearest to ms.
RoundsToHundredths(ms, hundredths) ==
    LET diff == hundredths * MsPerHundredthHour - ms
    IN  2 * diff <= MsPerHundredthHour /\ 2 * diff >= 0 - MsPerHundredthHour

DaysInRange(startDate, endDate) ==
    IF startDate <= endDate THEN endDate - startDate + 1 ELSE 0

\* C6: for every presenceAnalytics request and every identity in its output,
\* days_present does not exceed the number of calendar days in
\* [startDate, endDate], and no identity has two day entries for one day.
C6_DaysPresentBounded ==
    Replied("presenceAnalytics") =>
        \A i \in 1..Len(resp.body.employees) :
           LET e == resp.body.employees[i]
           IN  /\ e.days_present <= DaysInRange(req.startDate, req.endDate)
               /\ \A j, k \in 1..Len(e.days) : j # k => e.days[j].date # e.days[k].date

\* The rows of the table that match the employeeName of the request and
\* clamp to an interval of its date.
QualifyingRows ==
    {r \in logs : /\ OnDate(r, req.date)
                  /\ includes(LowerNames[r.Name], toLowerCase(req.employeeName))
                  /\ ClampRow(r, req.date) # Null}

\* C7: reconstructing a single identity/day with no matching events returns
\* a fully-formed day summary with an empty session list and total hours
\* 0.00, not an error or a result of another shape.
C7_EmptyDaySummary ==
    (Replied("employeePresence") /\ QualifyingRows = {}) =>
        /\ resp.kind = "json"
        /\ resp.body.sessions = <<>>
        /\ resp.body.total_hours = 0

\* C8: a presenceAnalytics request with startDate > endDate fails with
\* InvalidRangeError; it does not return a normal (empty) range summary.
C8_ReversedRangeFails ==
    (Replied("presenceAnalytics") /\ req.startDate > req.endDate) =>
        resp.kind = "error"

\* A row whose LastSeen is earlier than its FirstSeen.
Malformed(r) == r.LastSeen # Null /\ r.LastSeen[1] < r.FirstSeen

\* Some session holds the instant FirstSeen of r.
ObservedIn(sessions, r) ==
    \E i \in 1..Len(sessions) :
       /\ ParseLocalISO(sessions[i].in_time) <= ParseDate(r.FirstSeen)
       /\ ParseDate(r.FirstSeen) <= ParseLocalISO(sessions[i].out_time)

\* C9: a raw event whose LastSeen is earlier than its FirstSeen counts as a
\* point observation at FirstSeen: the day's sessions of its identity hold
\* that instant, in getEmployeePresence and in getDailyReport.
C9_MalformedRowIsPoint ==
    /\ Replied("employeePresence") =>
          \A r \in logs :
             (/\ Malformed(r)
              /\ SqlDate(r.FirstSeen) = req.date
              /\ includes(LowerNames[r.Name], toLowerCase(req.employeeName))) =>
                 resp.kind = "json" /\ ObservedIn(resp.body.sessions, r)
    /\ Replied("getDailyReport") =>
          \A r \in logs :
             (/\ Malformed(r)
              /\ SqlDate(r.FirstSeen) = req.date
              /\ r.Name \notin ExcludedNames) =>
                 \E i \in 1..Len(resp.body.employees) :
                    /\ resp.body.employees[i].name = NormOf(r)
                    /\ ObservedIn(resp.body.employees[i].sessions, r)

\* C10: the employees of a daily report are ordered by first_in ascending,
\* those without sessions (first_in none) after those with sessions, and
\* entries with equal first_in by identity name ascending.
C10_ReportOrder ==
    Replied("getDailyReport") =>
        \A i, j \in 1..Len(resp.body.employees) :
           i < j =>
              LET a == resp.body.employees[i]
                  b == resp.body.employees[j]
              IN  /\ a.first_in = Null => b.first_in = Null
                  /\ (a.first_in # Null /\ b.first_in # Null) =>
                        ~TimeTextLess(b.first_in, a.first_in)
                  /\ a.first_in = b.first_in => StrLess(a.name, b.name)

-----------------------------------------------------------------------------
(* Claims about the range summary (Spec) *)

\* C11: the per-identity summaries presenceAnalytics returns are sorted by
\* identity name ascending, for every table and range.
C11_SummarySortedByName ==
    Replied("presenceAnalytics") =>
        \A i, j \in 1..Len(resp.body.employees) :
           i < j => StrLess(resp.body.employees[i].name, resp.body.employees[j].name)

-----------------------------------------------------------------------------
(* Claims about interleaved tool calls and the day loop (SpecAsync) *)

\* The calendar days from startDate to endDate inclusive, ascending; none
\* when the range is reversed or a date cannot be parsed.
RangeDays(startDate, endDate) ==
    IF startDate = InvalidDateText \/ endDate = InvalidDateText \/ startDate > endDate
    THEN <<>>
    ELSE [i \in 1..(endDate - startDate + 1) |-> startDate + i - 1]

\* The days the loop of the call has pushed so far.
Visited(task) == [i \in 1..Len(task.days) |-> task.days[i].date]

\* C12: for every startDate <= endDate the day loop of presenceAnalytics
\* ends having requested the daily report of each calendar day from
\* startDate to endDate exactly once, in ascending order (no day skipped,
\* none visited twice); for a reversed range or unparsable dates it makes no
\* iteration.
C12_EachDayOnce ==
    \A t \in TaskIds :
       tasks[t].op = "presenceAnalytics" =>
          LET visited == Visited(tasks[t])
              expected == RangeDays(tasks[t].startDate, tasks[t].endDate)
          IN  /\ Len(visited) <= Len(expected)
              /\ \A i \in 1..Len(visited) : visited[i] = expected[i]
              /\ (tasks[t].pc = "done" /\ tasks[t].resp.kind = "json") =>
                    visited = expected

-----------------------------------------------------------------------------
(* Claims about the reports of the tools (SpecTools) *)

\* The exclusion predicate: the normalized name contains 'unknown' or
\* 'anonymous', whatever the case of its letters.
Rejected(name) ==
    \/ includes(toLowerCase(name), <<"u", "n", "k", "n", "o", "w", "n">>)
    \/ includes(toLowerCase(name), <<"a", "n", "o", "n", "y", "m", "o", "u", "s">>)

\* The last second of the raw span of a row.
RawEnd(r) == IF r.LastSeen = Null THEN r.FirstSeen ELSE r.LastSeen[1]

\* The raw span [FirstSeen, LastSeen] of the row intersects the day.
Intersects(r, day) ==
    /\ r.FirstSeen <= RawEnd(r)
    /\ r.FirstSeen * MsPerSecond <= DayEnd(day)
    /\ RawEnd(r) * MsPerSecond >= DayStart(day)

\* Some session holds the part of the raw span of r that lies in the day.
Covered(sessions, r, day) ==
    \E i \in 1..Len(sessions) :
       /\ ParseLocalISO(sessions[i].in_time) <= Max(r.FirstSeen * MsPerSecond, DayStart(day))
       /\ ParseLocalISO(sessions[i].out_time) >= Min(RawEnd(r) * MsPerSecond, DayEnd(day))

\* C13: for every day d of a daily or range report, every stored event whose
\* raw [FirstSeen, LastSeen] span intersects d contributes its clamped
\* interval to d's sessions of its identity, also when it starts before d
\* and ends after d.
C13_IntersectingEventsCount ==
    /\ Replied("getDailyReport") =>
          \A r \in logs :
             (Intersects(r, req.date) /\ ~Rejected(NormOf(r))) =>
                \E i \in 1..Len(resp.body.employees) :
                   /\ resp.body.employees[i].name = NormOf(r)
                   /\ Covered(resp.body.employees[i].sessions, r, req.date)
    /\ Replied("employeePresence") =>
          \A r \in logs :
             (/\ Intersects(r, req.date)
              /\ includes(toLowerCase(NormOf(r)), toLowerCase(req.employeeName))) =>
                resp.kind = "json" /\ Covered(resp.body.sessions, r, req.date)
    /\ Replied("presenceAnalytics") =>
          \A r \in logs :
             \A k \in 1..Len(RangeDays(req.startDate, req.endDate)) :
                LET day == RangeDays(req.startDate, req.endDate)[k]
                IN  (Intersects(r, day) /\ ~Rejected(NormOf(r))) =>
                       \E i \in 1..Len(resp.body.employees) :
                          /\ resp.body.employees[i].name = NormOf(r)
                          /\ \E j \in 1..Len(resp.body.employees[i].days) :
                                resp.body.employees[i].days[j].date = day

\* The sum of the total_hours of the day entries, in hundredths of an hour.
RECURSIVE DayHoursSum(_)
DayHoursSum(days) ==
    IF days = <<>> THEN 0 ELSE days[1].total_hours + DayHoursSum(Tail(days))

\* The days of the range on which the identity has at least one session:
\* some row of it is selected for the day and clamps to an interval of it.
DaysWithSessions(name, startDate, endDate) ==
    LET range == RangeDays(startDate, endDate)
    IN  {range[k] : k \in {j \in 1..Len(range) :
            \E r \in logs : /\ NormOf(r) = name
                            /\ OnDate(r, range[j])
                            /\ ClampRow(r, range[j]) # Null}}

\* C14: for every identity in a presenceAnalytics result, days_present is
\* the number of days of the range on which the identity has at least one
\* session, total_hours is the sum of its daily total_hours, and days holds
\* one entry per such day in ascending date order.
C14_RangeSummaryCounts ==
    Replied("presenceAnalytics") =>
        \A i \in 1..Len(resp.body.employees) :
           LET e == resp.body.employees[i]
               present == DaysWithSessions(e.name, req.startDate, req.endDate)
           IN  /\ e.days_present = Cardinality(present)
               /\ e.total_hours = DayHoursSum(e.days)
               /\ Len(e.days) = Cardinality(present)
               /\ \A j \in 1..Len(e.days) : e.days[j].date \in present
               /\ \A j, k \in 1..Len(e.days) : j < k => e.days[j].date < e.days[k].date

-----------------------------------------------------------------------------
(* Claims about the grouping of the daily report (Spec) *)

\* The row reaches a group of the report of the day: it is selected, its
\* identity is not excluded and its clamp is not none.
Grouped(r, day) ==
    /\ OnDate(r, day)
    /\ ~Rejected(NormOf(r))
    /\ ClampRow(r, day) # Null

\* C15: getDailyReport partitions the day's events by exact normalized
\* identity: each non-excluded event with a non-none clamp lies in the
\* sessions of exactly one entry, that of its identity; there is exactly one
\* entry per distinct identity; and the session boundaries of an entry are
\* those of events of that very identity, never of one whose name contains
\* it or is contained in it.
C15_PartitionByIdentity ==
    Replied("getDailyReport") =>
        LET emps == resp.body.employees
            own(i) == {r \in logs : Grouped(r, req.date) /\ NormOf(r) = emps[i].name}
        IN  /\ \A i, j \in 1..Len(emps) : i # j => emps[i].name # emps[j].name
            /\ \A r \in logs :
                  Grouped(r, req.date) =>
                     \E i \in 1..Len(emps) :
                        /\ emps[i].name = NormOf(r)
                        /\ \E k \in 1..Len(emps[i].sessions) :
                              /\ ParseLocalISO(emps[i].sessions[k].in_time)
                                    <= ClampRow(r, req.date)[1]
                              /\ ClampRow(r, req.date)[2]
                                    <= ParseLocalISO(emps[i].sessions[k].out_time)
            /\ \A i \in 1..Len(emps) :
                  /\ own(i) # {}
                  /\ \A k \in 1..Len(emps[i].sessions) :
                        /\ \E r \in own(i) :
                              ClampRow(r, req.date)[1]
                                 = ParseLocalISO(emps[i].sessions[k].in_time)
                        /\ \E r \in own(i) :
                              ClampRow(r, req.date)[2]
                                 = ParseLocalISO(emps[i].sessions[k].out_time)

\* A report with an entry for "Al" and one for "Al B", whose events overlap.
C15_Witness ==
    /\ Replied("getDailyReport")
    /\ Len(resp.body.employees) = 2
    /\ \E i, j \in 1..2 :
          /\ resp.body.employees[i].name = <<"A", "l">>
          /\ resp.body.employees[j].name = <<"A", "l", " ", "B">>
          /\ resp.body.employees[i].first_in # resp.body.employees[j].first_in

-----------------------------------------------------------------------------
(* Claims about exclusion and empty entries (SpecTools) *)

\* C16: no identity whose normalized name contains 'unknown' or 'anonymous'
\* (in any case) appears in a daily report, in a range summary, in the
\* exported CSV or in the currently-present list.
C16_ExcludedNeverReported ==
    /\ Replied("getDailyReport") =>
          \A i \in 1..Len(resp.body.employees) : ~Rejected(resp.body.employees[i].name)
    /\ Replied("presenceAnalytics") =>
          \A i \in 1..Len(resp.body.employees) : ~Rejected(resp.body.employees[i].name)
    /\ Replied("exportReport") =>
          \A i \in 2..Len(resp.lines) : ~Rejected(resp.lines[i][1])
    /\ Replied("currentStatus") =>
          \A i \in 1..Len(resp.body.employees) : ~Rejected(resp.body.employees[i].name)

\* A currently-present list of one identity from a table that also holds a
\* row of "Anonymous" seen as lately.
C16_Witness ==
    /\ Replied("currentStatus")
    /\ resp.body.count = 1
    /\ \E r \in logs :
          /\ r.Name = AnonymousName
          /\ r.LastSeen # Null
          /\ r.LastSeen[1] = resp.body.employees[1].last_seen

\* C17: every identity of a daily report or of a range summary has at least
\* one session on each day it is listed for, with first_in and last_out not
\* none, and has an event that qualifies on that day: no entry is made for
\* an identity without one.
C17_NoEmptyEntries ==
    /\ Replied("getDailyReport") =>
          \A i \in 1..Len(resp.body.employees) :
             LET e == resp.body.employees[i]
             IN  /\ e.sessions # <<>>
                 /\ e.first_in # Null
                 /\ e.last_out # Null
                 /\ \E r \in logs : Grouped(r, req.date) /\ NormOf(r) = e.name
    /\ Replied("presenceAnalytics") =>
          \A i \in 1..Len(resp.body.employees) :
             LET e == resp.body.employees[i]
             IN  /\ e.days # <<>>
                 /\ \A j \in 1..Len(e.days) :
                       /\ e.days[j].first_in # Null
                       /\ e.days[j].last_out # Null
                       /\ \E r \in logs : Grouped(r, e.days[j].date) /\ NormOf(r) = e.name

\* A daily report of one identity from a table with a second identity whose
\* only row of the day clamps to none.
C17_Witness ==
    /\ Replied("getDailyReport")
    /\ Len(resp.body.employees) = 1
    /\ \E r \in logs :
          /\ OnDate(r, req.date)
          /\ ~Rejected(NormOf(r))
          /\ ClampRow(r, req.date) = Null
          /\ NormOf(r) # resp.body.employees[1].name

-----------------------------------------------------------------------------
(* Claims about interleaved calls and the database in use (SpecAsync) *)

\* The results the presenceAnalytics call of the task has when it runs alone
\* on the database file at path.
AloneResults(task, path) ==
    UNION {presenceAnalytics(files[path], task.startDate, task.endDate,
                             task.gapMinutes, tieUp, task.TZ) : tieUp \in BOOLEAN}

\* C18: tool calls that interleave at their awaits each give the result they
\* give running alone: every day of a presenceAnalytics call is read from
\* one and the same database file and its result is one it has alone on
\* that file; and a call that arrives after configureDatabase({path: P})
\* has returned reads from P.
C18_CallsIsolated ==
    \A t \in TaskIds :
       tasks[t].op = "presenceAnalytics" =>
          LET task == tasks[t]
          IN  /\ \A i, j \in 1..Len(task.sources) : task.sources[i] = task.sources[j]
              /\ task.expect # Null =>
                    \A i \in 1..Len(task.sources) : task.sources[i] = task.expect[1]
              /\ task.pc = "done" =>
                    \E path \in DOMAIN files : task.resp \in AloneResults(task, path)

-----------------------------------------------------------------------------
(* Claims about the order of accumulation (SpecSummarize) *)

-----------------------------------------------------------------------------
(* The Excel export of the web server (GET /api/export-excel)              *)

\* A day of the export is its number in the requested month: 1 is the first
\* of the month, 0 and below are days of the month before, numbers above the
\* month's length are days of the month after.  A weekday is 0 (Monday) to
\* 6 (Sunday).
Weekdays == 0..6

MonthLengths == 28..31

\* The weekday of day when the first of the month falls on firstWeekday.
isoWeekday(day, firstWeekday) == (firstWeekday + day + 6) % 7

\* day.clone().startOf('isoWeek'): the Monday of the ISO week of day.
startOfIsoWeek(day, firstWeekday) == day - isoWeekday(day, firstWeekday)

\* The five days pushed for the week of weekStart.
WeekDays(weekStart) == [i \in 1..5 |-> weekStart + (i - 1)]

\* The while loop: one week per value of currentDay, which advances by one
\* week while it is on or before the last day of the month.
RECURSIVE WeeksFrom(_, _, _)
WeeksFrom(currentDay, firstWeekday, lastDayOfMonth) ==
    IF currentDay <= lastDayOfMonth
    THEN <<[days |-> WeekDays(startOfIsoWeek(currentDay, firstWeekday))]>>
            \o WeeksFrom(currentDay + 7, firstWeekday, lastDayOfMonth)
    ELSE <<>>

weeks(firstWeekday, lastDayOfMonth) == WeeksFrom(1, firstWeekday, lastDayOfMonth)

\* The values of a data cell.
Blank == ""
CheckMark == "check"
Cross == "x"

\* day.month() + 1 === parseInt(month)
InRequestedMonth(day, lastDayOfMonth) == day \in 1..lastDayOfMonth

CellValue(day, lastDayOfMonth, presenceDates) ==
    IF ~InRequestedMonth(day, lastDayOfMonth) THEN Blank
    ELSE IF day \in presenceDates THEN CheckMark
    ELSE Cross

\* The data row of an employee: the cells written, each in its column (the
\* name is in column 1, a week takes five columns and a separator).
DataRow(ws, lastDayOfMonth, presenceDates) ==
    {[col |-> 2 + 6 * (w - 1) + (i - 1),
      day |-> ws[w].days[i],
      value |-> CellValue(ws[w].days[i], lastDayOfMonth, presenceDates)] :
        w \in 1..Len(ws), i \in 1..5}

\* The presence dates of an employee in a month of the given length.
PresenceDateSets(lastDayOfMonth) == SUBSET {1, 15, lastDayOfMonth}

InitExcel ==
    /\ Constructed
    /\ logs = {}
    /\ files = (DefaultPath :> logs)
    /\ pc = "idle"
    /\ req = NoReq
    /\ resp = NoResp

\* GET /api/export-excel for a month that starts on firstWeekday and has
\* length days, with one employee present on presenceDates.
ExportExcel ==
    /\ pc = "idle"
    /\ \E firstWeekday \in Weekdays, length \in MonthLengths :
          \E presenceDates \in PresenceDateSets(length) :
             /\ req' = [op |-> "export-excel", firstWeekday |-> firstWeekday,
                        length |-> length, presenceDates |-> presenceDates]
             /\ resp' = [kind |-> "xlsx",
                         weeks |-> weeks(firstWeekday, length),
                         row |-> DataRow(weeks(firstWeekday, length), length,
                                         presenceDates)]
    /\ pc' = "replied"
    /\ UNCHANGED <<logs, conn>>

NextExcel == ExportExcel \/ Reply

SpecExcel == InitExcel /\ [][NextExcel]_vars

-----------------------------------------------------------------------------
(* Claims about the Excel export (SpecExcel) *)

\* The Monday-to-Friday days of a month.
WorkDays(firstWeekday, length) ==
    {n \in 1..length : (firstWeekday + (n - 1)) % 7 \in 0..4}

\* C20: in the Excel export every week holds the five days Monday to Friday
\* of one week, and every Monday-to-Friday day of the requested month has
\* exactly one cell of the data row, marked present if the employee was
\* present that day and absent if not, whatever the month's first weekday and
\* length.
C20_EveryWorkDayInOneColumn ==
    (pc = "replied" /\ req.op = "export-excel") =>
        /\ \A w \in 1..Len(resp.weeks) :
              /\ (req.firstWeekday + (resp.weeks[w].days[1] - 1) + 7) % 7 = 0
              /\ \A i \in 1..5 :
                    resp.weeks[w].days[i] = resp.weeks[w].days[1] + (i - 1)
        /\ \A n \in WorkDays(req.firstWeekday, req.length) :
              /\ Cardinality({c \in resp.row : c.day = n}) = 1
              /\ \A c \in resp.row :
                    c.day = n =>
                       c.value = (IF n \in req.presenceDates THEN "check" ELSE "x")

-----------------------------------------------------------------------------
(* Point observations: the session builder of the older tool variants and  *)
(* getEmployeePresence on the same observations                            *)

\* SQLite datetime(text): the text 'YYYY-MM-DD HH:MM:SS' of a whole second.
SqlDatetime(seconds) ==
    LET sec == seconds % SecondsPerDay
    IN  <<seconds \div SecondsPerDay, sec \div 3600, (sec % 3600) \div 60, sec % 60>>

\* datetime(logged_at, 'localtime'): logged_at is stored in UTC.
ConnectionTime(logged_at, zone) ==
    SqlDatetime(logged_at + UtcOffset(zone, logged_at * MsPerSecond) \div MsPerSecond)

\* The gap of the older variants, fixed in the code.
OldGapMinutes == 30

IsNewSession_orEqual(current, prev) ==
    ParseDate(current.logged_at) - ParseDate(prev.logged_at) >= OldGapMinutes * MsPerMinute

\* const gap = (new Date(current.logged_at) - new Date(prev.logged_at)) /
\* (1000 * 60); isNewSession = gap > 30
IsNewSession(current, prev) ==
    ParseDate(current.logged_at) - ParseDate(prev.logged_at) > OldGapMinutes * MsPerMinute

\* The for loop of the older variants from index i, with the sessions
\* pushed so far and the open currentSession.
RECURSIVE BuildSessions(_, _, _, _)
BuildSessions(wifiLogs, i, sessions, currentSession) ==
    IF i > Len(wifiLogs) THEN Append(sessions, currentSession)
    ELSE IF IsNewSession(wifiLogs[i], wifiLogs[i - 1])
         THEN BuildSessions(wifiLogs, i + 1, Append(sessions, currentSession),
                            [in_time |-> wifiLogs[i].connection_time,
                             out_time |-> wifiLogs[i].connection_time])
         ELSE BuildSessions(wifiLogs, i + 1, sessions,
                            [in_time |-> currentSession.in_time,
                             out_time |-> wifiLogs[i].connection_time])

\* getEmployeePresence of the older variants on the rows of its query.
oldGetEmployeePresence(wifiLogs, employeeName, date) ==
    IF Len(wifiLogs) = 0
    THEN [kind |-> "text", text |-> "No logs found",
          employeeName |-> employeeName, date |-> date]
    ELSE [kind |-> "json",
          body |-> [employee |-> wifiLogs[1].device_name,
                    date |-> date,
                    sessions |-> BuildSessions(wifiLogs, 2, <<>>,
                                    [in_time |-> wifiLogs[1].connection_time,
                                     out_time |-> wifiLogs[1].connection_time]),
                    total_connections |-> Len(wifiLogs)]]

\* The wifi_logs rows of the observations of table on a host of the zone:
\* one row per observation, logged at the UTC second of its local time.
WifiLogs(table, zone) ==
    {[device_name |-> r.Name,
      logged_at |-> UtcOf(ParseDate(r.FirstSeen), zone) \div MsPerSecond] : r \in table}

\* SELECT device_name, datetime(logged_at, 'localtime') as connection_time,
\* logged_at FROM wifi_logs WHERE device_name LIKE ? AND date(logged_at,
\* 'localtime') = ? ORDER BY logged_at, for a pattern every row matches.
QueryWifiLogs(wifi, date, zone) ==
    LET selected == {[device_name |-> w.device_name,
                      connection_time |-> ConnectionTime(w.logged_at, zone),
                      logged_at |-> w.logged_at] :
                        w \in {x \in wifi : ConnectionTime(x.logged_at, zone)[1] = date}}
    IN  {q \in Perms(selected) :
            \A i, j \in 1..Len(q) : i < j => q[i].logged_at <= q[j].logged_at}

\* Local seconds of the point observations of day 0: 09:00, 09:15, 09:40,
\* 10:10 (30 minutes after 09:40), 10:40:01 and 12:35.
PointTimes ==
    {At(0, 9, 0, 0), At(0, 9, 15, 0), At(0, 9, 40, 0), At(0, 10, 10, 0),
     At(0, 10, 40, 1), At(0, 12, 35, 0)}

PointName == <<"A", "l", " ", "B">>

\* Point observations of one identity: FirstSeen = LastSeen.
PointRows == {[Name |-> PointName, FirstSeen |-> t, LastSeen |-> <<t>>] : t \in PointTimes}

InitPoints ==
    /\ Constructed
    /\ logs \in SUBSET PointRows
    /\ files = (DefaultPath :> logs)
    /\ pc = "idle"
    /\ req = NoReq
    /\ resp = NoResp

\* tools/call employeePresence for the identity on day 0.
PointsPresence ==
    /\ pc = "idle"
    /\ \E gapMinutes \in Gaps, tieUp \in BOOLEAN :
          \E rows \in QueryEmployeePresence(logs, 0) :
             /\ req' = [op |-> "employeePresence", employeeName |-> PointName,
                        date |-> 0, gapMinutes |-> gapMinutes]
             /\ resp' = getEmployeePresence(rows, PointName, 0, gapMinutes, tieUp)
    /\ pc' = "replied"
    /\ db' = ensureDb
    /\ UNCHANGED <<logs, dbPath, files, tasks, configured>>

\* tools/call getEmployeePresence of an older variant, on a host of zone TZ
\* whose wifi_logs holds the same observations; the result of the call
\* before is kept in first.
OldPresence ==
    /\ pc = "replied"
    /\ req.op = "employeePresence"
    /\ \E zone \in HostZones :
          \E wifiLogs \in QueryWifiLogs(WifiLogs(logs, zone), req.date, zone) :
             /\ req' = [op |-> "getEmployeePresence", employeeName |-> req.employeeName,
                        date |-> req.date, gapMinutes |-> req.gapMinutes,
                        TZ |-> zone, first |-> resp]
             /\ resp' = oldGetEmployeePresence(wifiLogs, req.employeeName, req.date)
    /\ pc' = "compared"
    /\ UNCHANGED <<logs, conn>>

NextPoints == PointsPresence \/ OldPresence \/ Reply

SpecPoints == InitPoints /\ [][NextPoints]_vars

-----------------------------------------------------------------------------
(* Claims about point observations (SpecPoints) *)

\* The observations at 09:00, 09:15, 09:40 and 12:35.
FourPoints ==
    {r \in PointRows :
        r.FirstSeen \in {At(0, 9, 0, 0), At(0, 9, 15, 0), At(0, 9, 40, 0), At(0, 12, 35, 0)}}

\* No other observation of the table lies within gapMinutes of r.
Lone(r, gapMinutes) ==
    \A o \in logs \ {r} :
       \/ o.FirstSeen - r.FirstSeen > gapMinutes * 60
       \/ r.FirstSeen - o.FirstSeen > gapMinutes * 60

\* C21: point observations at 09:00, 09:15, 09:40 and 12:35 of one day with
\* gapMinutes = 30 give exactly the sessions [09:00, 09:40] and
\* [12:35, 12:35] and 0.67 total hours; in general an observation with no
\* other within gapMinutes is a session of its own of length zero, and a
\* day of lone observations alone totals 0.00 hours.
C21_PointObservations ==
    (Replied("employeePresence") /\ logs \subseteq PointRows /\ logs # {}) =>
        /\ resp.kind = "json"
        /\ (logs = FourPoints /\ req.gapMinutes = 30) =>
              /\ resp.body.sessions =
                    <<[in_time |-> <<0, 9, 0, 0>>, out_time |-> <<0, 9, 40, 0>>],
                      [in_time |-> <<0, 12, 35, 0>>, out_time |-> <<0, 12, 35, 0>>]>>
              /\ resp.body.total_hours = 67
        /\ \A r \in logs :
              Lone(r, req.gapMinutes) =>
                 \E i \in 1..Len(resp.body.sessions) :
                    /\ ParseLocalISO(resp.body.sessions[i].in_time) = r.FirstSeen * MsPerSecond
                    /\ resp.body.sessions[i].out_time = resp.body.sessions[i].in_time
        /\ (\A r \in logs : Lone(r, req.gapMinutes)) =>
              /\ Len(resp.body.sessions) = Cardinality(logs)
              /\ resp.body.total_hours = 0

C21_Witness ==
    /\ Replied("employeePresence")
    /\ logs = FourPoints
    /\ req.gapMinutes = 30
    /\ Len(resp.body.sessions) = 2
    /\ resp.body.total_hours = 67

-----------------------------------------------------------------------------
(* Further claims about mergeSessions (SpecMerge) *)

\* Interval i comes before interval j once the input is in start order (the
\* sort is stable: equal starts keep their input order).
Before(ivs, i, j) ==
    \/ ivs[i][1] < ivs[j][1]
    \/ ivs[i][1] = ivs[j][1] /\ i < j

\* The interval lies inside the session.
InSession(iv, session) == session[1] <= iv[1] /\ iv[2] <= session[2]

\* The largest end of the intervals of the indices in S (S not empty).
MaxEnd(ivs, S) == CHOOSE e \in {ivs[i][2] : i \in S} : \A i \in S : ivs[i][2] <= e

\* C22: mergeSessions never over-merges.  With the members of a session
\* taken in start order, each one after the first starts at most gapMinutes
\* after the largest end of the members before it.  The test is strict: an
\* interval that starts gapMinutes or less after the largest end of the
\* intervals before it shares a session with one of them, and one that
\* starts later than that shares a session with none of them.
C22_NeverOverMerges ==
    MergeDone =>
        LET out == resp.value
            ivs == req.intervals
            gap == req.gapMinutes * MsPerMinute
        IN  /\ \A k \in 1..Len(out), j \in 1..Len(ivs) :
                  LET before == {i \in 1..Len(ivs) :
                                    Before(ivs, i, j) /\ InSession(ivs[i], out[k])}
                  IN  (InSession(ivs[j], out[k]) /\ before # {}) =>
                         ivs[j][1] - MaxEnd(ivs, before) <= gap
            /\ \A j \in 1..Len(ivs) :
                  LET before == {i \in 1..Len(ivs) : Before(ivs, i, j)}
                  IN  before # {} =>
                         ((ivs[j][1] - MaxEnd(ivs, before) <= gap)
                             <=> \E k \in 1..Len(out), i \in before :
                                    InSession(ivs[i], out[k]) /\ InSession(ivs[j], out[k]))

\* One interval starts exactly gapMinutes after the end of the session open
\* before it and is merged; another starts a second later than that and
\* opens a new session.
C22_Witness ==
    /\ MergeDone
    /\ Len(resp.value) = 2
    /\ \E i, j, k \in 1..Len(req.intervals) :
          /\ req.intervals[j][1] - req.intervals[i][2] = req.gapMinutes * MsPerMinute
          /\ InSession(req.intervals[i], resp.value[1])
          /\ InSession(req.intervals[j], resp.value[1])
          /\ req.intervals[k][1] - resp.value[1][2] = req.gapMinutes * MsPerMinute + MsPerSecond
          /\ InSession(req.intervals[k], resp.value[2])


\* The indices of the input intervals that lie inside the session.
Members(ivs, session) == {i \in 1..Len(ivs) : InSession(ivs[i], session)}

\* C23: every input interval of mergeSessions lies inside exactly one of the
\* returned sessions; the start of each session is the least start and its
\* end the largest end of the intervals inside it (an interval the session
\* covers already does not move its end back), so every session boundary is
\* a boundary value of the input.
C23_SessionsCoverInput ==
    MergeDone =>
        LET out == resp.value
            ivs == req.intervals
        IN  /\ \A i \in 1..Len(ivs) :
                  Cardinality({k \in 1..Len(out) : InSession(ivs[i], out[k])}) = 1
            /\ \A k \in 1..Len(out) :
                  /\ Members(ivs, out[k]) # {}
                  /\ \E i \in Members(ivs, out[k]) : ivs[i][1] = out[k][1]
                  /\ \E i \in Members(ivs, out[k]) : ivs[i][2] = out[k][2]
                  /\ out[k][2] = MaxEnd(ivs, Members(ivs, out[k]))

\* A session absorbed an interval that ends before the end the session had
\* reached, after a longer interval that starts earlier.
C23_Witness ==
    /\ MergeDone
    /\ InputNested(req.intervals)
    /\ \E k \in 1..Len(resp.value) :
          /\ Cardinality(Members(req.intervals, resp.value[k])) >= 2
          /\ \E i, j \in Members(req.intervals, resp.value[k]) :
                /\ Before(req.intervals, i, j)
                /\ req.intervals[j][2] < req.intervals[i][2]
                /\ req.intervals[i][2] = resp.value[k][2]


\* The interval lists that hold the intervals of ivs in some order.
Rearranged(ivs) ==
    {[i \in 1..Len(ivs) |-> ivs[p[i]]] : p \in Perms(1..Len(ivs))}

\* C24: the sessions mergeSessions returns depend only on the multiset of
\* the input intervals and on gapMinutes: the intervals of the call given in
\* any other order, among them intervals that share a start and differ in
\* their ends, give the same sessions.
C24_OrderOfInputIrrelevant ==
    MergeDone =>
        \A other \in Rearranged(req.intervals) :
           mergeSessions(other, req.gapMinutes) = resp.value

\* The input is out of start order and holds two intervals of the same start,
\* the longer one first.
C24_Witness ==
    /\ MergeDone
    /\ InputUnsorted(req.intervals)
    /\ Len(resp.value) >= 2
    /\ \E i, j \in 1..Len(req.intervals) :
          /\ i < j
          /\ req.intervals[i][1] = req.intervals[j][1]
          /\ req.intervals[i][2] > req.intervals[j][2]




-----------------------------------------------------------------------------
(* Further claims about point observations (SpecPoints) *)

\* The older variant was called after getEmployeePresence on the same
\* observations, with the gap the older variant has built in.
Compared == pc = "compared" /\ req.gapMinutes = OldGapMinutes

\* C25: for point observations (FirstSeen = LastSeen) of one identity on one
\* day, the session builder of the older variants, which opens a session
\* when the gap to the log before exceeds 30 minutes, gives the session list
\* that clamping and mergeSessions give with gapMinutes = 30.
C25_OlderBuilderAgrees ==
    Compared =>
        /\ resp.kind = req.first.kind
        /\ resp.kind = "json" => resp.body.sessions = req.first.body.sessions

\* Both gave two sessions or more, one of them holding observations exactly
\* 30 minutes apart, on a host of daylight-saving zone.
C25_Witness ==
    /\ Compared
    /\ req.TZ = "Europe/Berlin"
    /\ resp.kind = "json"
    /\ Len(resp.body.sessions) >= 2
    /\ resp.body.total_connections > Len(resp.body.sessions)
    /\ \E a, b \in logs :
          /\ b.FirstSeen - a.FirstSeen = OldGapMinutes * 60
          /\ \E i \in 1..Len(resp.body.sessions) :
                /\ ParseLocalISO(resp.body.sessions[i].in_time) <= a.FirstSeen * MsPerSecond
                /\ ParseLocalISO(resp.body.sessions[i].out_time) >= b.FirstSeen * MsPerSecond


-----------------------------------------------------------------------------
(* Claims about partial-name queries (Spec) *)

\* The rows of the query of getEmployeePresence whose normalized name
\* contains the query string, case-insensitively.
Hits ==
    {r \in logs :
        /\ OnDate(r, req.date)
        /\ includes(toLowerCase(normalizeName(r.Name)), toLowerCase(req.employeeName))}

\* The hits with an interval on the date.
HitsOnDate == {r \in Hits : ClampRow(r, req.date) # Null}

\* C26: getEmployeePresence builds its sessions from all the rows whose
\* normalized name contains the query string case-insensitively.  When
\* rows of several identities match, their intervals go into one session
\* list with one total, under the normalized name of the first matching row
\* in FirstSeen order, also when that row has no interval on the date.
C26_SubstringMatchMergesIdentities ==
    Replied("employeePresence") =>
        /\ resp.kind = "json" <=> HitsOnDate # {}
        /\ resp.kind = "json" =>
              LET sessions == resp.body.sessions
              IN  /\ \A r \in HitsOnDate :
                        \E k \in 1..Len(sessions) :
                           /\ ParseLocalISO(sessions[k].in_time) <= ClampRow(r, req.date)[1]
                           /\ ClampRow(r, req.date)[2] <= ParseLocalISO(sessions[k].out_time)
                  /\ \A k \in 1..Len(sessions) :
                        /\ \E r \in HitsOnDate :
                              ClampRow(r, req.date)[1] = ParseLocalISO(sessions[k].in_time)
                        /\ \E r \in HitsOnDate :
                              ClampRow(r, req.date)[2] = ParseLocalISO(sessions[k].out_time)
                  /\ RoundsToHundredths(SessionsMs(sessions), resp.body.total_hours)
                  /\ \E r \in Hits :
                        /\ resp.body.employee = normalizeName(r.Name)
                        /\ \A o \in Hits : r.FirstSeen <= o.FirstSeen

\* Rows of two identities matched; the first of them in FirstSeen order has
\* no interval on the date, and the result bears its name.
C26_Witness ==
    /\ Replied("employeePresence")
    /\ resp.kind = "json"
    /\ Cardinality({normalizeName(r.Name) : r \in Hits}) = 2
    /\ \A r \in HitsOnDate : normalizeName(r.Name) # resp.body.employee
    /\ \E r \in Hits \ HitsOnDate :
          /\ normalizeName(r.Name) = resp.body.employee
          /\ \A o \in HitsOnDate : r.FirstSeen < o.FirstSeen


-----------------------------------------------------------------------------
(* The tool-call handler, one call at a time, with its error paths         *)

\* An exception on its way to the catch of the handler.
Thrown(message) == [kind |-> "thrown", message |-> message]

\* No error.
NoError == ""

initialize_pathFirst(handle, path, customPath) ==
    LET target == IF customPath = NoPath THEN path ELSE customPath
    IN  IF target \in DOMAIN files
        THEN [db |-> <<target>>, dbPath |-> target, error |-> NoError]
        ELSE [db |-> handle, dbPath |-> target, error |-> "SQLITE_CANTOPEN"]

\* initialize(customPath) run to its end, when this.db is handle and
\* this.dbPath is path: both are assigned once the open has succeeded;
\* when it fails the error is thrown again and neither is assigned.
initialize(handle, path, customPath) ==
    LET target == IF customPath = NoPath THEN path ELSE customPath
    IN  IF target \in DOMAIN files
        THEN [db |-> <<target>>, dbPath |-> target, error |-> NoError]
        ELSE [db |-> handle, dbPath |-> path, error |-> "SQLITE_CANTOPEN"]

\* ensureDb() run to its end, the open failing or not.
ensureDbOrThrow(handle, path) ==
    IF handle = Null THEN initialize(handle, path, NoPath)
    ELSE [db |-> handle, dbPath |-> path, error |-> NoError]

\* configureDatabase({ path: newPath }) run to its end: the connection it
\* leaves and what it returns or throws.
configureDatabase(newPath) ==
    LET c == IF newPath # NoPath THEN initialize(Null, dbPath, newPath)
             ELSE ensureDbOrThrow(db, dbPath)
    IN  [db |-> c.db, dbPath |-> c.dbPath,
         results |-> {IF c.error # NoError THEN Thrown(c.error)
                      ELSE [kind |-> "json", body |-> [dbPath |-> c.dbPath]]}]

\* The tools of the switch and a name that is none of them.
ToolCases == {"configureDatabase", "employeePresence", "presenceAnalytics",
              "currentStatus", "exportReport"}

UnknownTool == "bogus"

\* The methods that destructure their argument (args || {} guards the
\* others).
Destructuring == {"employeePresence", "presenceAnalytics", "exportReport"}

\* The arguments of a call: left out altogether ("undefined"), an object
\* without the required properties ("partial"), or all there ("full").
HandlerCalls ==
    {[name |-> "configureDatabase", shape |-> "full", path |-> p] : p \in PathArgs}
    \cup {[name |-> "employeePresence", shape |-> s, employeeName |-> <<"a", "l">>,
           date |-> 1, gapMinutes |-> DefaultGap] : s \in {"undefined", "partial", "full"}}
    \cup {[name |-> "presenceAnalytics", shape |-> "undefined"],
          [name |-> "presenceAnalytics", shape |-> "partial"],
          [name |-> "presenceAnalytics", shape |-> "full", startDate |-> 1, endDate |-> 2]}
    \cup {[name |-> "currentStatus", shape |-> s, windowMinutes |-> DefaultGap,
           now |-> At(2, 0, 20, 0)] : s \in {"undefined", "full"}}
    \cup {[name |-> "exportReport", shape |-> s, date |-> 1, gapMinutes |-> DefaultGap] :
             s \in {"undefined", "full"}}
    \cup {[name |-> UnknownTool, shape |-> "full"]}

\* new Date(startDate) of the presenceAnalytics call: an Invalid Date when
\* the property is missing.
StartOf(c) == IF c.shape = "full" THEN c.startDate ELSE InvalidDateText

EndDateOf(c) == IF c.shape = "full" THEN c.endDate ELSE InvalidDateText

\* The call reaches await this.ensureDb(): presenceAnalytics does so only
\* in the getDailyReport of a day of its loop.
ReachesEnsureDb(c, zone) ==
    /\ c.name \in ToolCases \ {"configureDatabase"}
    /\ ~(c.shape = "undefined" /\ c.name \in Destructuring)
    /\ c.name = "presenceAnalytics" =>
          LoopDays(ParseUTCDate(StartOf(c)), ParseUTCDate(EndDateOf(c)), zone) # <<>>

\* What the method of the call returns or throws once connected to table.
ResultsOn(c, table, zone, tieUp) ==
    CASE c.name = "employeePresence" /\ c.shape = "partial" ->
            {Thrown("Cannot read properties of undefined (reading 'toLowerCase')")}
      [] c.name = "employeePresence" /\ c.shape = "full" ->
            {getEmployeePresence(rows, c.employeeName, c.date, c.gapMinutes, tieUp) :
                rows \in QueryEmployeePresence(table, c.date)}
      [] c.name = "presenceAnalytics" ->
            presenceAnalytics(table, StartOf(c), EndDateOf(c), DefaultGap, tieUp, zone)
      [] c.name = "currentStatus" ->
            {[kind |-> "json",
              body |-> getCurrentlyPresent(rows, UtcOf(c.now * MsPerSecond, zone) \div MsPerSecond)] :
                rows \in QueryCurrentlyPresent(table, SqlThreshold(c.now, zone, c.windowMinutes))}
      [] c.name = "exportReport" ->
            {[kind |-> "csv", lines |-> exportReport(report)] :
                report \in DailyReports(table, c.date, c.gapMinutes, tieUp)}

\* The switch of the handler on the call: the connection it leaves and the
\* values it may return or throw.
Switch(c, zone, tieUp) ==
    IF c.name = "configureDatabase" THEN configureDatabase(c.path)
    ELSE IF c.name \notin ToolCases
    THEN [db |-> db, dbPath |-> dbPath, results |-> {Thrown("Unknown tool")}]
    ELSE IF c.shape = "undefined" /\ c.name \in Destructuring
    THEN [db |-> db, dbPath |-> dbPath,
          results |-> {Thrown("Cannot destructure property of undefined")}]
    ELSE IF ~ReachesEnsureDb(c, zone)
    THEN [db |-> db, dbPath |-> dbPath,
          results |-> {Summarize(StartOf(c), EndDateOf(c), <<>>)}]
    ELSE LET e == ensureDbOrThrow(db, dbPath)
         IN  [db |-> e.db, dbPath |-> e.dbPath,
              results |-> IF e.error # NoError THEN {Thrown(e.error)}
                          ELSE ResultsOn(c, files[e.db[1]], zone, tieUp)]

Caught_rethrown(result) ==
    IF result.kind = "thrown" THEN [kind |-> "rejected", message |-> result.message]
    ELSE result

\* try { ... } catch (error) { return { content: [{ type: 'text', text:
\* `Error: ${error.message}` }] } }
Caught(result) ==
    IF result.kind = "thrown" THEN ErrorResp(result.message) ELSE result

\* The database files on disk: either path may be one sqlite cannot open.
HandlerFiles ==
    UNION {[D -> {{}, FileRows}] : D \in SUBSET {DefaultPath, OtherPath}}

\* No call answered yet.
NoLast == [op |-> "none", kind |-> "none", path |-> NoPath]

InitHandler ==
    /\ Constructed
    /\ logs = {}
    /\ files \in HandlerFiles
    /\ pc = "idle"
    /\ req = [op |-> "none", last |-> NoLast]
    /\ resp = NoResp

\* A tools/call request is handled to its end; req keeps the connection
\* the call found and the call answered before it.
CallTool ==
    /\ pc = "idle"
    /\ \E c \in HandlerCalls, zone \in HostZones, tieUp \in BOOLEAN :
          \E s \in {Switch(c, zone, tieUp)} :
             \E result \in s.results :
                /\ req' = [op |-> c.name, call |-> c, TZ |-> zone,
                           dbBefore |-> db, dbPathBefore |-> dbPath,
                           last |-> req.last]
                /\ resp' = Caught(result)
                /\ db' = s.db
                /\ dbPath' = s.dbPath
    /\ pc' = "replied"
    /\ UNCHANGED <<logs, files, tasks, configured>>

\* The response is sent; the server waits for the next request.
Served ==
    /\ pc = "replied"
    /\ pc' = "idle"
    /\ req' = [op |-> "none",
               last |-> [op |-> req.op, kind |-> resp.kind,
                         path |-> IF req.op = "configureDatabase" THEN req.call.path
                                  ELSE NoPath]]
    /\ resp' = NoResp
    /\ UNCHANGED <<logs, conn>>

NextHandler == CallTool \/ Served

SpecHandler == InitHandler /\ [][NextHandler]_vars


-----------------------------------------------------------------------------
(* Claims about the handler (SpecHandler) *)

\* The handler has answered a call.
Handled == pc = "replied" /\ req.op # "none"

\* The call runs a query: it names a reporting tool and has the arguments
\* the method reads before its query.
NeedsDatabase(c) ==
    \/ c.name = "employeePresence" /\ c.shape # "undefined"
    \/ c.name = "currentStatus"
    \/ c.name \in {"presenceAnalytics", "exportReport"} /\ c.shape = "full"

\* The call found no handle and a path that cannot be opened.
NoDatabase == req.dbBefore = Null /\ req.dbPathBefore \notin DOMAIN files

\* C27: the tool-call handler never rejects.  An error thrown while a tool
\* executes (an unknown tool name, a missing required argument, a database
\* that cannot be opened) comes back as the one text result 'Error:
\* <message>', and the server keeps serving: a later call with its arguments
\* on a database that opens gets its result, whatever was answered before.
C27_HandlerNeverRejects ==
    Handled =>
        /\ resp.kind \in {"json", "text", "csv", "error"}
        /\ req.op \notin ToolCases => resp = [kind |-> "error", message |-> "Unknown tool"]
        /\ (req.op \in {"employeePresence", "presenceAnalytics", "exportReport"}
               /\ req.call.shape = "undefined") => resp.kind = "error"
        /\ (req.op = "employeePresence" /\ req.call.shape = "partial") =>
              resp.kind = "error"
        /\ (NeedsDatabase(req.call) /\ NoDatabase) =>
              resp = [kind |-> "error", message |-> "SQLITE_CANTOPEN"]
        /\ (req.op = "configureDatabase" /\ req.call.path # NoPath
               /\ req.call.path \notin DOMAIN files) =>
              resp = [kind |-> "error", message |-> "SQLITE_CANTOPEN"]
        /\ (NeedsDatabase(req.call) /\ req.call.shape = "full" /\ ~NoDatabase) =>
              resp.kind \in {"json", "text", "csv"}

\* A call is answered with its result after an unknown tool was answered
\* with an error text.
C27_Witness ==
    /\ Handled
    /\ req.last.op = UnknownTool
    /\ req.last.kind = "error"
    /\ req.op = "employeePresence"
    /\ resp.kind = "json"


\* C28: when configureDatabase({ path: P }) cannot open P, dbPath keeps the
\* value it had and the handle is left unset, so the next tool call connects
\* to the path of before; when it opens P, dbPath is P and the handle is on
\* P.
C28_FailedConfigureKeepsPath ==
    Handled =>
        /\ (req.op = "configureDatabase" /\ req.call.path # NoPath) =>
              IF req.call.path \in DOMAIN files
              THEN /\ db = <<req.call.path>>
                   /\ dbPath = req.call.path
                   /\ resp = [kind |-> "json", body |-> [dbPath |-> req.call.path]]
              ELSE /\ resp.kind = "error"
                   /\ db = Null
                   /\ dbPath = req.dbPathBefore
        /\ (req.last.op = "configureDatabase" /\ req.last.path # NoPath
               /\ req.last.kind = "error" /\ NeedsDatabase(req.call)) =>
              /\ req.dbBefore = Null
              /\ IF req.dbPathBefore \in DOMAIN files
                 THEN /\ db = <<req.dbPathBefore>>
                      /\ dbPath = req.dbPathBefore
                      /\ resp.kind = "error" => req.call.shape # "full"
                 ELSE /\ db = Null
                      /\ resp.kind = "error"

\* The path was changed to the other file, a further change to a path that
\* cannot be opened failed, and the next call is answered from the other
\* file.
C28_Witness ==
    /\ Handled
    /\ req.last.op = "configureDatabase"
    /\ req.last.path = BadPath
    /\ req.last.kind = "error"
    /\ req.op = "employeePresence"
    /\ req.dbBefore = Null
    /\ req.dbPathBefore = OtherPath
    /\ db = <<OtherPath>>
    /\ resp.kind = "json"


-----------------------------------------------------------------------------
(* The synchronization of the web server (POST /api/sync)                  *)

\* Days of the window of one sync in the model (daysToSync is 60).
SyncDays == 2

\* The records the source API may report: a device first seen at 09:00 of
\* day 0 with LastSeen 09:30 or, reported later, 10:00, and another device.
SourceLogs ==
    {[Mac |-> "aa:01", Name |-> <<"A", "l", " ", "B">>, FirstSeen |-> At(0, 9, 0, 0),
      LastSeen |-> <<At(0, 9, 30, 0)>>],
     [Mac |-> "aa:01", Name |-> <<"A", "l", " ", "B">>, FirstSeen |-> At(0, 9, 0, 0),
      LastSeen |-> <<At(0, 10, 0, 0)>>],
     [Mac |-> "aa:02", Name |-> Null, FirstSeen |-> At(0, 9, 0, 0),
      LastSeen |-> <<At(0, 9, 30, 0)>>]}

\* Longest array the source API returns for a day in the model.
MaxFetched == 2

\* What the fetch of one day comes to: it throws (no connection, a body
\* that is no JSON), it gives a status that is not ok, or it gives the
\* array of the day.
Fetches ==
    {[kind |-> "throws"], [kind |-> "not ok"]}
    \cup {[kind |-> "data", data |-> d] : d \in SeqsUpTo(SourceLogs, MaxFetched)}

InsertOrReplace(table, log) ==
    {r \in table : ~(r.Mac = log.Mac /\ r.FirstSeen = log.FirstSeen)} \cup {log}

\* INSERT OR IGNORE INTO logs (Mac, Name, FirstSeen, LastSeen) under
\* UNIQUE(Mac, FirstSeen): no row is written when one has the key.
InsertOrIgnore(table, log) ==
    IF \E r \in table : r.Mac = log.Mac /\ r.FirstSeen = log.FirstSeen
    THEN table
    ELSE table \cup {log}

\* data.forEach(log => stmt.run(log.Mac, log.Name, log.FirstSeen, log.LastSeen))
RECURSIVE InsertAll(_, _)
InsertAll(table, data) ==
    IF data = <<>> THEN table
    ELSE InsertAll(InsertOrIgnore(table, Head(data)), Tail(data))

\* The for loop over the days from day i on: the data of a day is stored,
\* a fetch that throws or is not ok only skips its day.
RECURSIVE SyncFrom(_, _, _)
SyncFrom(table, fetched, i) ==
    IF i > Len(fetched) THEN table
    ELSE SyncFrom(IF fetched[i].kind = "data" THEN InsertAll(table, fetched[i].data)
                  ELSE table,
                  fetched, i + 1)

InitSync ==
    /\ Constructed
    /\ files = <<>>
    /\ logs = {}
    /\ pc = "idle"
    /\ req = NoReq
    /\ resp = NoResp

\* POST /api/sync, to its end; req keeps the table the run found and what
\* the fetches of its days came to.
Sync ==
    /\ pc = "idle"
    /\ \E fetched \in [1..SyncDays -> Fetches] :
          /\ logs' = SyncFrom(logs, fetched, 1)
          /\ req' = [op |-> "sync", before |-> logs, fetched |-> fetched]
    /\ resp' = [kind |-> "json", message |-> "Sync complete"]
    /\ pc' = "replied"
    /\ UNCHANGED conn

\* The response is sent; the table stays.
SyncReplied ==
    /\ pc = "replied"
    /\ pc' = "idle"
    /\ req' = NoReq
    /\ resp' = NoResp
    /\ UNCHANGED <<logs, conn>>

NextSync == Sync \/ SyncReplied

SpecSync == InitSync /\ [][NextSync]_vars

-----------------------------------------------------------------------------
(* Claims about the synchronization (SpecSync) *)

SameKey(a, b) == a.Mac = b.Mac /\ a.FirstSeen = b.FirstSeen

\* The records the fetches of the run gave.
FetchedLogs ==
    UNION {{req.fetched[i].data[k] : k \in 1..Len(req.fetched[i].data)} :
              i \in {j \in 1..Len(req.fetched) : req.fetched[j].kind = "data"}}

\* C29: the sync is idempotent and never overwrites.  After any sequence of
\* syncs the table holds at most one row per (Mac, FirstSeen); a stored row
\* keeps the Name and LastSeen it was first stored with, also when the
\* source later reports another LastSeen for its key; a run that fetches
\* only keys the table holds changes nothing; and a fetch that fails for a
\* day does not keep the records of the other days from being stored.
C29_SyncIdempotent ==
    /\ \A a, b \in logs : SameKey(a, b) => a = b
    /\ (pc = "replied" /\ req.op = "sync") =>
          /\ req.before \subseteq logs
          /\ \A f \in FetchedLogs : \E r \in logs : SameKey(r, f)
          /\ \A r \in logs \ req.before : r \in FetchedLogs
          /\ (\A f \in FetchedLogs : \E r \in req.before : SameKey(r, f)) =>
                logs = req.before

\* The fetch of the first day failed and the next day's data was stored
\* all the same; the source reported another LastSeen for a stored key and
\* the stored row stayed.
C29_Witness ==
    /\ pc = "replied"
    /\ req.op = "sync"
    /\ req.fetched[1].kind = "throws"
    /\ logs # req.before
    /\ \E f \in FetchedLogs, r \in req.before : SameKey(r, f) /\ r.LastSeen # f.LastSeen




-----------------------------------------------------------------------------
(* exportReport on days where the identities have different numbers of    *)
(* sessions                                                                *)

\* FirstSeen/LastSeen pairs of day 1: 09:00 to 09:10, 09:30 to 09:40 (20
\* minutes after the first) and 11:00 to 11:30.
CsvPairs ==
    {<<At(1, 9, 0, 0), <<At(1, 9, 10, 0)>>>>,
     <<At(1, 9, 30, 0), <<At(1, 9, 40, 0)>>>>,
     <<At(1, 11, 0, 0), <<At(1, 11, 30, 0)>>>>}

\* Raw Name values: "Al B" and "Bo,b", which the CSV quotes.
CsvNames == {<<"A", "l", " ", "B">>, CommaName}

CsvRows ==
    {[Name |-> n, FirstSeen |-> p[1], LastSeen |-> p[2]] : n \in CsvNames, p \in CsvPairs}

InitCsv ==
    /\ Constructed
    /\ logs \in SUBSET CsvRows
    /\ files = (DefaultPath :> logs)
    /\ pc = "idle"
    /\ req = NoReq
    /\ resp = NoResp

NextCsv == ExportReport \/ Reply

SpecCsv == InitCsv /\ [][NextCsv]_vars

-----------------------------------------------------------------------------
(* Claim about the shape of the exported CSV (SpecCsv) *)

\* m is the largest number of sessions of an employee of the report, 0 when
\* the report has no employee.
LargestSessionCount(employees, m) ==
    /\ \A i \in 1..Len(employees) : Len(employees[i].sessions) <= m
    /\ \/ m = 0
       \/ \E i \in 1..Len(employees) : Len(employees[i].sessions) = m

\* The lines are a header and one line per employee of the report, each of
\* 2 + 2*m fields, with the employee's sessions in order and empty fields
\* after them.
RectangularFor(lines, employees, m) ==
    /\ Len(lines) = 1 + Len(employees)
    /\ \A l \in 1..Len(lines) : Len(lines[l]) = 2 + 2 * m
    /\ lines[1][1] = <<"Name">>
    /\ lines[1][2 + 2 * m] = <<"TotalHours">>
    /\ \A k \in 1..m : lines[1][2 * k] = <<"In", k>> /\ lines[1][2 * k + 1] = <<"Out", k>>
    /\ \A i \in 1..Len(employees) :
          /\ lines[i + 1][1] = CsvField(employees[i].name)
          /\ lines[i + 1][2 + 2 * m] = employees[i].total_hours
          /\ \A k \in 1..m :
                IF k <= Len(employees[i].sessions)
                THEN /\ lines[i + 1][2 * k] = employees[i].sessions[k].in_time
                     /\ lines[i + 1][2 * k + 1] = employees[i].sessions[k].out_time
                ELSE /\ lines[i + 1][2 * k] = EmptyText
                     /\ lines[i + 1][2 * k + 1] = EmptyText

\* C30: the CSV of exportReport is rectangular: with maxSessions the largest
\* session count of an employee of that day's report (0 when there is none),
\* the header and every employee line have exactly 2 + 2*maxSessions fields,
\* and a line of an employee with fewer sessions has empty In/Out fields for
\* the sessions it lacks.
C30_CsvRectangular ==
    Replied("exportReport") =>
       \E tieUp \in BOOLEAN :
          \E report \in DailyReports(logs, req.date, req.gapMinutes, tieUp) :
             \E m \in 0..Cardinality(logs) :
                /\ LargestSessionCount(report.employees, m)
                /\ RectangularFor(resp.lines, report.employees, m)

\* A CSV of two employees where one has three sessions and the other one:
\* the line of the second has two In fields and two Out fields empty.
C30_Witness ==
    /\ Replied("exportReport")
    /\ Len(resp.lines) = 3
    /\ Len(resp.lines[1]) = 8
    /\ \E i, j \in 2..3 :
          /\ resp.lines[i][6] # EmptyText
          /\ resp.lines[j][2] # EmptyText
          /\ resp.lines[j][4] = EmptyText
          /\ resp.lines[j][7] = EmptyText



====
